---- MODULE Spec2Model ----
(***************************************************************************)
(* A model of the rustlox tree-walking interpreter: the driver (lox.rs),   *)
(* the resolver (resolver.rs), the environment chain (environment.rs),     *)
(* callables, classes and instances (callable.rs, class.rs) and the        *)
(* evaluator (interpreter.rs).                                             *)
(*                                                                         *)
(* Rc<RefCell<T>> cells are indices into a heap (a sequence) of T; the     *)
(* heaps only grow, so an index is the identity of its cell.  Numbers are  *)
(* integers.  Recursive functions of the code are RECURSIVE operators      *)
(* that thread the interpreter state `st` and return a result record       *)
(* [st, k, v, message], k being "Ok", "RuntimeError", "Return" (the three  *)
(* outcomes of Result<_, LoxError>), "Panic" (unwrap of None) or "Cut"     *)
(* (the model's step bound was reached).                                   *)
(***************************************************************************)
EXTENDS Integers, Sequences, FiniteSets

VARIABLES pc, source, statements, index, HAD_ERROR, HAD_RUNTIME_ERROR,
          envs, classes, instances, environment, locals, trace, steps,
          exit_code, tokens, current, errors, parse_log

vars == <<pc, source, statements, index, HAD_ERROR, HAD_RUNTIME_ERROR,
          envs, classes, instances, environment, locals, trace, steps,
          exit_code, tokens, current, errors, parse_log>>

\* ------------------------------------------------------------------ bounds
\* Statements one run may execute before the model cuts the run.
MaxSteps == 40
\* Largest number of parameters / arguments in the generated call programs.
MaxArity == 2
\* Deepest nesting of block / if / while around a generated return.
MaxNest == 2
\* Longest token sequence (before Eof) of the exhaustive parser inputs.
MaxTokens == 3
\* The lines read at the prompt in one session.
MaxLines == 3
\* The characters of the exhaustive scanner inputs.
MaxSource == 3
\* The nodes of the environment chains the environment operations are tried on.
MaxChain == 3

\* ------------------------------------------------------------------ tokens
Token(token_type, lexeme) ==
    [token_type |-> token_type, lexeme |-> lexeme, line |-> 1]

Ident(lexeme) == Token("Identifier", lexeme)

\* ------------------------------------------------------------------ values
NoneV == [t |-> "None"]
BooleanV(b) == [t |-> "Boolean", b |-> b]
NumberV(n) == [t |-> "Number", n |-> n]
StringV(s) == [t |-> "String", s |-> s]
CallableV(f) == [t |-> "Callable", f |-> f]
ClassV(ref) == [t |-> "Class", class |-> ref]
InstanceV(ref) == [t |-> "Instance", instance |-> ref]

Native(arity) == [variant |-> "Native", arity |-> arity]

User(name, params, body, closure, is_initializer) ==
    [variant |-> "User", name |-> name, params |-> params, body |-> body,
     closure |-> closure, is_initializer |-> is_initializer]

\* ------------------------------------------------------------ expressions
\* Option::None of an Option<Expr> / Option<Stmt>.
None == [kind |-> "None"]

Literal(value) == [kind |-> "Literal", value |-> value]
Grouping(expression) == [kind |-> "Grouping", expression |-> expression]
Assign(name, value) == [kind |-> "Assign", name |-> Ident(name), value |-> value]
Binary(left, op, right) ==
    [kind |-> "Binary", left |-> left, operator |-> Token(op, op), right |-> right]
Logical(left, op, right) ==
    [kind |-> "Logical", left |-> left, operator |-> Token(op, op), right |-> right]
CallE(callee, arguments) ==
    [kind |-> "Call", callee |-> callee, paren |-> Token("RightParen", ")"),
     arguments |-> arguments]
Get(object, name) == [kind |-> "Get", object |-> object, name |-> Ident(name)]
Set(object, name, value) ==
    [kind |-> "Set", object |-> object, name |-> Ident(name), value |-> value]
Super(method) ==
    [kind |-> "Super", keyword |-> Token("Super", "super"), method |-> Ident(method)]
This == [kind |-> "This", keyword |-> Token("This", "this")]
Unary(op, right) == [kind |-> "Unary", operator |-> Token(op, op), right |-> right]
Variable(name) == [kind |-> "Variable", name |-> Ident(name)]

\* ------------------------------------------------------------- statements
Block(stmts) == [kind |-> "Block", statements |-> stmts]
Class(name, superclass, methods) ==
    [kind |-> "Class", name |-> Ident(name), superclass |-> superclass,
     methods |-> methods]
Expression(expression) == [kind |-> "Expression", expression |-> expression]
Function(name, params, body) ==
    [kind |-> "Function", name |-> Ident(name),
     params |-> [i \in DOMAIN params |-> Ident(params[i])], body |-> body]
If(condition, then_branch, else_branch) ==
    [kind |-> "If", condition |-> condition, then_branch |-> then_branch,
     else_branch |-> else_branch]
PrintStmt(expression) == [kind |-> "Print", expression |-> expression]
Return(value) ==
    [kind |-> "Return", keyword |-> Token("Return", "return"), value |-> value]
Var(name, initializer) ==
    [kind |-> "Var", name |-> Ident(name), initializer |-> initializer]
While(condition, body) == [kind |-> "While", condition |-> condition, body |-> body]

\* Iterator::flatten over a Vec<Option<T>>: the Some entries, in order.
Flatten(v) == SelectSeq(v, LAMBDA s : s.kind # "None")

\* ---------------------------------------------------------------- results
Ok(st, v) == [st |-> st, k |-> "Ok", v |-> v, message |-> ""]
\* A Return signal that drops the value it should carry.
ReturnSignalWithoutValue(st, v) ==
    [st |-> st, k |-> "Return", v |-> NoneV, message |-> ""]

ReturnSignal(st, v) == [st |-> st, k |-> "Return", v |-> v, message |-> ""]
Panic(st) == [st |-> st, k |-> "Panic", v |-> NoneV, message |-> ""]
Cut(st) == [st |-> st, k |-> "Cut", v |-> NoneV, message |-> ""]

Emit(st, event) == [st EXCEPT !.trace = Append(@, event)]

\* A result whose state's trace notes the event.
Noted(r, event) == [r EXCEPT !.st = Emit(r.st, event)]

\* What an evaluation can change besides the trace: the heaps; with the length
\* of the trace, what it can have done.
Snapshot(st) ==
    [envs |-> st.envs, classes |-> st.classes, instances |-> st.instances,
     events |-> Len(st.trace)]

\* LoxError::RuntimeError { message, token }; the trace notes where it is raised.
RuntimeError(st, message) ==
    [st |-> Emit(st, [e |-> "raise", message |-> message]),
     k |-> "RuntimeError", v |-> NoneV, message |-> message]

\* ------------------------------------------------------------ environment
\* HashMap::insert.
Insert(map, key, value) ==
    [x \in DOMAIN map \cup {key} |-> IF x = key THEN value ELSE map[x]]

EmptyMap == <<>>

\* An Environment::new that is given no enclosing environment.
NewEnvironmentDetached(st, enclosing) ==
    [st EXCEPT !.envs = Append(@, [enclosing |-> 0, values |-> EmptyMap])]

\* Environment::new wrapped in Rc::new(RefCell::new(..)): a new heap cell.
NewEnvironment(st, enclosing) ==
    [st EXCEPT !.envs = Append(@, [enclosing |-> enclosing, values |-> EmptyMap])]

NewestEnv(st) == Len(st.envs)

\* Environment::define on cell env.
Define(st, env, name, value) ==
    [st EXCEPT !.envs[env].values = Insert(@, name, value)]

\* Environment::get on cell env: this node, else the enclosing chain.
RECURSIVE EnvGet(_, _, _)
EnvGet(st, env, var_name) ==
    IF var_name.lexeme \in DOMAIN st.envs[env].values
    THEN Ok(st, st.envs[env].values[var_name.lexeme])
    ELSE IF st.envs[env].enclosing # 0
         THEN EnvGet(st, st.envs[env].enclosing, var_name)
         ELSE RuntimeError(st, "Undefined variable.")

\* An assign that writes the binding into cell env itself, wherever the
\* name is bound.
EnvAssignInCurrentNode(st, env, var_name, value) ==
    IF \E n \in 1..Len(st.envs) : var_name.lexeme \in DOMAIN st.envs[n].values
    THEN Ok([st EXCEPT !.envs[env].values = Insert(@, var_name.lexeme, value)], NoneV)
    ELSE RuntimeError(st, "Undefined variable.")

\* Environment::assign on cell env.
RECURSIVE EnvAssign(_, _, _, _)
EnvAssign(st, env, var_name, value) ==
    IF var_name.lexeme \in DOMAIN st.envs[env].values
    THEN Ok([st EXCEPT !.envs[env].values = Insert(@, var_name.lexeme, value)], NoneV)
    ELSE IF st.envs[env].enclosing # 0
         THEN EnvAssign(st, st.envs[env].enclosing, var_name, value)
         ELSE RuntimeError(st, "Undefined variable.")

\* environment::ancestor: 0 when an unwrap of None panics.
RECURSIVE ancestor(_, _, _)
ancestor(st, env, distance) ==
    IF env = 0 THEN 0
    ELSE IF distance = 0 THEN env
    ELSE ancestor(st, st.envs[env].enclosing, distance - 1)

\* environment::get_at: a missing name reads as nil.
get_at(st, env, distance, name) ==
    LET a == ancestor(st, env, distance) IN
    IF a = 0 THEN Panic(st)
    ELSE IF name \in DOMAIN st.envs[a].values
         THEN Ok(st, st.envs[a].values[name])
         ELSE Ok(st, NoneV)

\* environment::assign_at: inserts whether or not the name exists.
assign_at(st, env, distance, name, value) ==
    LET a == ancestor(st, env, distance) IN
    IF a = 0 THEN Panic(st)
    ELSE Ok([st EXCEPT !.envs[a].values = Insert(@, name.lexeme, value)], NoneV)

\* ------------------------------------------------------- values, continued
\* A truthiness in which the number 0 and the empty string are false too.
is_truthyAsInC(a) ==
    CASE a.t = "None" -> FALSE
      [] a.t = "Boolean" -> a.b
      [] a.t = "Number" -> a.n # 0
      [] a.t = "String" -> a.s # ""
      [] OTHER -> TRUE

\* interpreter.rs is_truthy.
is_truthy(a) ==
    CASE a.t = "None" -> FALSE
      [] a.t = "Boolean" -> a.b
      [] OTHER -> TRUE

\* interpreter.rs is_equal.
is_equal(a, b) ==
    CASE a.t = "None" /\ b.t = "None" -> TRUE
      [] a.t = "None" -> FALSE
      [] b.t = "None" -> FALSE
      [] a.t = "Number" /\ b.t = "Number" -> a.n = b.n
      [] a.t = "String" /\ b.t = "String" -> a.s = b.s
      [] a.t = "Boolean" /\ b.t = "Boolean" -> a.b = b.b
      [] OTHER -> FALSE

Digit(d) == <<"0", "1", "2", "3", "4", "5", "6", "7", "8", "9">>[d + 1]

\* f64::to_string of a whole number (no ".0" suffix is ever produced for one).
RECURSIVE NatToString(_)
NatToString(n) ==
    IF n < 10 THEN Digit(n) ELSE NatToString(n \div 10) \o Digit(n % 10)

NumToString(n) == IF n < 0 THEN "-" \o NatToString(-n) ELSE NatToString(n)

\* interpreter.rs stringify, with the Display impls of callable.rs and class.rs.
stringify(st, obj) ==
    CASE obj.t = "None" -> "nil"
      [] obj.t = "Number" -> NumToString(obj.n)
      [] obj.t = "Boolean" -> IF obj.b THEN "true" ELSE "false"
      [] obj.t = "String" -> obj.s
      [] obj.t = "Callable" ->
            IF obj.f.variant = "Native" THEN "<native fn>"
            ELSE "<fn " \o obj.f.name.lexeme \o ">"
      [] obj.t = "Class" -> st.classes[obj.class].name
      [] obj.t = "Instance" ->
            st.classes[st.instances[obj.instance].class].name \o " instance"

\* ------------------------------------------------------ callable and class
NoCallable == [variant |-> "None"]

\* An arity that counts one parameter too many.
arityOffByOne(f) == IF f.variant = "Native" THEN f.arity + 1 ELSE Len(f.params) + 1

\* LoxCallable::arity.
arity(f) == IF f.variant = "Native" THEN f.arity ELSE Len(f.params)

\* LoxClass::find_method: own table first, then the superclass chain.
RECURSIVE find_method(_, _, _)
find_method(st, class, name) ==
    IF name \in DOMAIN st.classes[class].methods
    THEN st.classes[class].methods[name]
    ELSE IF st.classes[class].superclass.t = "Class"
         THEN find_method(st, st.classes[class].superclass.class, name)
         ELSE NoCallable

\* A bind that defines `this` as nil instead of the receiver.
bindWithoutReceiver(st, f, instance) ==
    LET st1 == NewEnvironment(st, f.closure)
        env == NewestEnv(st1)
    IN [st |-> Define(st1, env, "this", NoneV),
        f |-> User(f.name, f.params, f.body, env, f.is_initializer)]

\* LoxCallable::bind: a new environment under the closure, holding `this`.
bind(st, f, instance) ==
    LET st1 == NewEnvironment(st, f.closure)
        env == NewestEnv(st1)
    IN [st |-> Define(st1, env, "this", instance),
        f |-> User(f.name, f.params, f.body, env, f.is_initializer)]

\* LoxInstance::new.
NewInstance(st, class) ==
    [st EXCEPT !.instances = Append(@, [class |-> class, fields |-> EmptyMap])]

\* LoxInstance::get: the field, else the class's method bound to the receiver.
InstanceGet(st, instance, name) ==
    IF name.lexeme \in DOMAIN st.instances[instance].fields
    THEN Ok(st, st.instances[instance].fields[name.lexeme])
    ELSE LET method == find_method(st, st.instances[instance].class, name.lexeme) IN
         IF method # NoCallable
         THEN LET b == bind(st, method, InstanceV(instance)) IN Ok(b.st, CallableV(b.f))
         ELSE RuntimeError(st, "Undefined property '" \o name.lexeme \o "'.")

\* The Object::Instance arm of Interpreter::evaluate (Get): LoxInstance::get
\* on the receiver; the trace notes the read and what it gave.
GetProperty(st, instance, name) ==
    LET r == InstanceGet(st, instance, name) IN
    [r EXCEPT !.st =
        Emit(r.st, [e |-> "get", instance |-> instance, name |-> name.lexeme,
                    class |-> st.classes[st.instances[instance].class].name,
                    fields |-> st.instances[instance].fields,
                    k |-> r.k, v |-> r.v, message |-> r.message,
                    this |-> IF r.k = "Ok" /\ r.v.t = "Callable"
                                          /\ r.v.f.variant = "User"
                             THEN get_at(r.st, r.v.f.closure, 0, "this").v
                             ELSE NoneV])]

\* LoxInstance::set.
InstanceSet(st, instance, name, value) ==
    [st EXCEPT !.instances[instance].fields = Insert(@, name.lexeme, value)]

\* Lox::runtime_error: print the message, set the flag.
runtime_error(st, message) ==
    [Emit(st, [e |-> "report", message |-> message])
        EXCEPT !.had_runtime_error = TRUE]

Aborted(r) == r.k \in {"Panic", "Cut"}

\* -------------------------------------------------------------- evaluator
\* The arithmetic and comparison arms of Interpreter::evaluate (Binary).
BinaryOp(st, op, left, right) ==
    LET both == left.t = "Number" /\ right.t = "Number"
        numbers == RuntimeError(st, "Operands must be numbers.")
    IN CASE op = "Minus" -> IF both THEN Ok(st, NumberV(left.n - right.n)) ELSE numbers
         [] op = "Slash" ->
               IF ~both THEN numbers
               ELSE IF right.n # 0 /\ left.n % right.n = 0
                    THEN Ok(st, NumberV(left.n \div right.n))
                    ELSE Cut(st)  \* a quotient outside the modelled integers
         [] op = "Plus" ->
               IF both THEN Ok(st, NumberV(left.n + right.n))
               ELSE IF left.t = "String" /\ right.t = "String"
                    THEN Ok(st, StringV(left.s \o right.s))
                    ELSE RuntimeError(st, "Operands must be both numbers or strings.")
         [] op = "Star" -> IF both THEN Ok(st, NumberV(left.n * right.n)) ELSE numbers
         [] op = "Greater" -> IF both THEN Ok(st, BooleanV(left.n > right.n)) ELSE numbers
         [] op = "GreaterEqual" ->
               IF both THEN Ok(st, BooleanV(left.n >= right.n)) ELSE numbers
         [] op = "Less" -> IF both THEN Ok(st, BooleanV(left.n < right.n)) ELSE numbers
         [] op = "LessEqual" ->
               IF both THEN Ok(st, BooleanV(left.n <= right.n)) ELSE numbers
         [] op = "BangEqual" -> Ok(st, BooleanV(~is_equal(left, right)))
         [] op = "EqualEqual" -> Ok(st, BooleanV(is_equal(left, right)))
         [] OTHER -> RuntimeError(st, "Invalid operator.")

\* The operator arms of Interpreter::evaluate (Unary).
UnaryOp(st, op, right) ==
    CASE op = "Bang" ->
            IF right.t = "Boolean" THEN Ok(st, BooleanV(~right.b))
            ELSE RuntimeError(st, "Operand must be a boolean.")
      [] op = "Minus" ->
            IF right.t = "Number" THEN Ok(st, NumberV(-right.n))
            ELSE RuntimeError(st, "Operand must be a number.")
      [] OTHER -> RuntimeError(st, "Invalid operator.")

\* Interpreter::look_up_variable.
look_up_variable(st, name, expr) ==
    IF expr \in DOMAIN st.locals
    THEN get_at(st, st.environment, st.locals[expr], name.lexeme)
    ELSE EnvGet(st, 1, name)

\* The parameter-binding loop of LoxCallable::call.
RECURSIVE DefineParams(_, _, _, _, _)
DefineParams(st, env, params, arguments, i) ==
    IF i > Len(params) THEN st
    ELSE DefineParams(Define(st, env, params[i].lexeme, arguments[i]),
                      env, params, arguments, i + 1)

\* The value `this` has in environment env itself (nil when it has none).
ThisOf(st, env) == get_at(st, env, 0, "this").v

ArityMessage(prefix, expected, got) ==
    prefix \o NumToString(expected) \o " arguments but got " \o NumToString(got) \o "."

\* evaluate, execute, execute_block and call are mutually recursive in the
\* source.  Here each recursive use goes through the one recursive operator
\* Step, which dispatches a request to the body it names; Evaluate, Execute,
\* ExecuteBlock and Call are the four kinds of request.
RECURSIVE Step(_)

Evaluate(st, expr) == Step([op |-> "evaluate", st |-> st, expr |-> expr])

Execute(st, stmt) == Step([op |-> "execute", st |-> st, stmt |-> stmt])

ExecuteBlock(st, stmts, env) ==
    Step([op |-> "execute_block", st |-> st, stmts |-> stmts, env |-> env])

Call(st, f, arguments) ==
    Step([op |-> "call", st |-> st, f |-> f, arguments |-> arguments])

RECURSIVE EvaluateArguments(_, _, _, _), ExecuteStatements(_, _, _),
          ExecuteWhile(_, _)

\* A result that treats an initializer like any other function: the returned
\* value, or nil.
ReturnValueOfAnyFunction(ret, f) == IF ret.k = "Return" THEN ret.v ELSE NoneV

\* The `match ret` of LoxCallable::call: what the call evaluates to, given how
\* execute_block ended.
ReturnValue(ret, f) ==
    IF ret.k = "Return"
    THEN IF f.is_initializer THEN ThisOf(ret.st, f.closure) ELSE ret.v
    ELSE IF f.is_initializer THEN ThisOf(ret.st, f.closure) ELSE NoneV

\* LoxCallable::call.  It returns an Object: whatever execute_block returned
\* that is not a Return signal yields nil (or `this` for an initializer).
call(st, f, arguments) ==
    IF f.variant = "Native" THEN Ok(st, NumberV(st.now))
    ELSE
      LET st1 == NewEnvironment(st, f.closure)
          env == NewestEnv(st1)
          st2 == DefineParams(st1, env, f.params, arguments, 1)
          st3 == Emit(st2, [e |-> "enter", name |-> f.name.lexeme, env |-> env,
                            closure |-> f.closure,
                            is_initializer |-> f.is_initializer,
                            this |-> ThisOf(st2, f.closure),
                            before |-> Len(st.envs),
                            params |-> Len(f.params),
                            arguments |-> Len(arguments)])
          ret == ExecuteBlock(st3, f.body, env)
          ret_val == ReturnValue(ret, f)
      IN IF Aborted(ret) THEN ret
         ELSE Ok(Emit(ret.st, [e |-> "leave", name |-> f.name.lexeme, env |-> env,
                               closure |-> f.closure,
                               is_initializer |-> f.is_initializer,
                               body |-> ret.k, value |-> ret.v,
                               result |-> ret_val]),
                 ret_val)

\* The Object::Class arm of Interpreter::evaluate (Call).
CallClass(st, class, arguments) ==
    LET before == Len(st.instances)
        st1 == NewInstance(st, class)
        instance == InstanceV(Len(st1.instances))
        initializer == find_method(st1, class, "init")
        done(s) == Emit(s, [e |-> "construct", class |-> class,
                            instance |-> instance, before |-> before])
    IN IF initializer = NoCallable THEN Ok(done(st1), instance)
       ELSE IF Len(arguments) # arity(initializer)
            THEN RuntimeError(st1, ArityMessage("Initializer expected ",
                                                arity(initializer), Len(arguments)))
            ELSE LET b == bind(st1, initializer, instance)
                     r == Call(b.st, b.f, arguments)
                 IN IF Aborted(r) THEN r ELSE Ok(done(r.st), instance)

\* The argument loop of Interpreter::evaluate (Call).
EvaluateArguments(st, arguments, i, vals) ==
    IF i > Len(arguments) THEN Ok(st, vals)
    ELSE LET r == Evaluate(st, arguments[i]) IN
         IF r.k # "Ok" THEN r
         ELSE EvaluateArguments(r.st, arguments, i + 1, Append(vals, r.v))

\* Interpreter::evaluate.
evaluate(st, expr) ==
    CASE expr.kind = "Literal" -> Ok(st, expr.value)
      [] expr.kind = "Grouping" -> Evaluate(st, expr.expression)
      [] expr.kind = "Assign" ->
            LET val == Evaluate(st, expr.value) IN
            IF val.k # "Ok" THEN val
            ELSE LET a == IF expr \in DOMAIN val.st.locals
                          THEN assign_at(val.st, val.st.environment,
                                         val.st.locals[expr], expr.name, val.v)
                          ELSE EnvAssign(val.st, 1, expr.name, val.v)
                 IN IF a.k # "Ok" THEN a ELSE Ok(a.st, val.v)
      [] expr.kind = "Logical" ->
            LET left == Evaluate(st, expr.left) IN
            IF left.k # "Ok" THEN left
            ELSE LET r == IF expr.operator.token_type = "Or"
                          THEN IF is_truthy(left.v) THEN left
                               ELSE Evaluate(left.st, expr.right)
                          ELSE IF ~is_truthy(left.v) THEN left
                               ELSE Evaluate(left.st, expr.right)
                 IN IF Aborted(r) THEN r
                    ELSE Noted(r, [e |-> "logical", op |-> expr.operator.token_type,
                                   left |-> left.v, k |-> r.k, v |-> r.v,
                                   after_left |-> Snapshot(left.st),
                                   after |-> Snapshot(r.st)])
      [] expr.kind = "Call" ->
            LET args == EvaluateArguments(st, expr.arguments, 1, <<>>) IN
            IF args.k # "Ok" THEN args
            ELSE LET callee == Evaluate(args.st, expr.callee) IN
                 IF callee.k # "Ok" THEN callee
                 ELSE CASE callee.v.t = "Class" ->
                               CallClass(callee.st, callee.v.class, args.v)
                        [] callee.v.t = "Callable" ->
                               IF Len(args.v) # arity(callee.v.f)
                               THEN RuntimeError(callee.st,
                                        ArityMessage("Expected ", arity(callee.v.f),
                                                     Len(expr.arguments)))
                               ELSE Call(callee.st, callee.v.f, args.v)
                        [] OTHER ->
                               RuntimeError(callee.st,
                                            "Callee must be a callable or a class")
      [] expr.kind = "Get" ->
            LET object == Evaluate(st, expr.object) IN
            IF object.k # "Ok" THEN object
            ELSE IF object.v.t = "Instance"
                 THEN GetProperty(object.st, object.v.instance, expr.name)
                 ELSE RuntimeError(object.st, "Only instances have properties.")
      [] expr.kind = "Set" ->
            LET object == Evaluate(st, expr.object) IN
            IF object.k # "Ok" THEN object
            ELSE IF object.v.t = "Instance"
                 THEN LET value == Evaluate(object.st, expr.value) IN
                      IF value.k # "Ok" THEN value
                      ELSE Ok(InstanceSet(value.st, object.v.instance, expr.name,
                                          value.v),
                              value.v)
                 ELSE RuntimeError(object.st, "Only instances have fields")
      [] expr.kind = "This" -> look_up_variable(st, expr.keyword, expr)
      [] expr.kind = "Unary" ->
            LET right == Evaluate(st, expr.right) IN
            IF right.k # "Ok" THEN right
            ELSE LET r == UnaryOp(right.st, expr.operator.token_type, right.v) IN
                 Noted(r, [e |-> "unary", op |-> expr.operator.token_type,
                           operand |-> right.v, k |-> r.k, v |-> r.v])
      [] expr.kind = "Variable" -> look_up_variable(st, expr.name, expr)
      [] expr.kind = "Binary" ->
            LET left == Evaluate(st, expr.left) IN
            IF left.k # "Ok" THEN left
            ELSE LET right == Evaluate(left.st, expr.right) IN
                 IF right.k # "Ok" THEN right
                 ELSE LET r == BinaryOp(right.st, expr.operator.token_type,
                                        left.v, right.v)
                      IN Noted(r, [e |-> "binary", op |-> expr.operator.token_type,
                                   left |-> left.v, right |-> right.v,
                                   k |-> r.k, v |-> r.v])
      [] OTHER -> RuntimeError(st, "Unsupported expression.")

\* The method-table loop of Interpreter::execute (Class).
RECURSIVE MethodTable(_, _, _, _)
MethodTable(st, methods, i, table) ==
    IF i > Len(methods) THEN table
    ELSE LET m == methods[i] IN
         MethodTable(st, methods, i + 1,
                     Insert(table, m.name.lexeme,
                            User(m.name, m.params, m.body, st.environment,
                                 m.name.lexeme = "init")))

\* LoxClass::new.  The evaluator passes a name and a method table only, so
\* the class it builds has no superclass.
NewClass(st, name, superclass, methods) ==
    [st EXCEPT !.classes =
        Append(@, [name |-> name, superclass |-> superclass, methods |-> methods])]

\* An evaluation result as the Expression, If and While arms of execute treat
\* it: a Return signal is passed on, a runtime error is reported and the
\* statement ends with Ok(()).
ReportAndOk(r) ==
    IF r.k = "RuntimeError" THEN Ok(runtime_error(r.st, r.message), NoneV) ELSE r

\* The while loop of Interpreter::execute (While).
ExecuteWhile(st, stmt) ==
    LET cond == Evaluate(st, stmt.condition) IN
    IF cond.k # "Ok" THEN ReportAndOk(cond)
    ELSE IF is_truthy(cond.v)
         THEN LET body == Execute(cond.st, stmt.body) IN
              IF body.k # "Ok" THEN body ELSE ExecuteWhile(body.st, stmt)
         ELSE Ok(cond.st, NoneV)

\* Interpreter::execute.
execute(st, stmt) ==
    IF st.steps >= MaxSteps THEN Cut(st)
    ELSE
    LET s0 == Emit([st EXCEPT !.steps = @ + 1], [e |-> "stmt", kind |-> stmt.kind])
    IN
    CASE stmt.kind = "Expression" ->
            LET r == Evaluate(s0, stmt.expression) IN
            IF r.k = "Ok" THEN Ok(r.st, NoneV) ELSE ReportAndOk(r)
      [] stmt.kind = "Function" ->
            Ok(Define(s0, s0.environment, stmt.name.lexeme,
                      CallableV(User(stmt.name, stmt.params, stmt.body,
                                     s0.environment, FALSE))),
               NoneV)
      [] stmt.kind = "If" ->
            LET cond == Evaluate(s0, stmt.condition) IN
            IF cond.k # "Ok" THEN ReportAndOk(cond)
            ELSE IF is_truthy(cond.v) THEN Execute(cond.st, stmt.then_branch)
                 ELSE IF stmt.else_branch.kind # "None"
                      THEN Execute(cond.st, stmt.else_branch)
                      ELSE Ok(cond.st, NoneV)
      [] stmt.kind = "While" -> ExecuteWhile(s0, stmt)
      [] stmt.kind = "Print" ->
            LET r == Evaluate(s0, stmt.expression) IN
            IF r.k = "Ok"
            THEN Ok(Emit(r.st, [e |-> "print", text |-> stringify(r.st, r.v)]), NoneV)
            ELSE r
      [] stmt.kind = "Return" ->
            IF stmt.value.kind # "None"
            THEN LET r == Evaluate(s0, stmt.value) IN
                 IF r.k # "Ok" THEN r
                 ELSE ReturnSignal(Emit(r.st, [e |-> "return", value |-> r.v]), r.v)
            ELSE ReturnSignal(Emit(s0, [e |-> "return", value |-> NoneV]), NoneV)
      [] stmt.kind = "Var" ->
            IF stmt.initializer.kind # "None"
            THEN LET r == Evaluate(s0, stmt.initializer) IN
                 IF r.k # "Ok" THEN r
                 ELSE Ok(Define(r.st, r.st.environment, stmt.name.lexeme, r.v), NoneV)
            ELSE Ok(Define(s0, s0.environment, stmt.name.lexeme, NoneV), NoneV)
      [] stmt.kind = "Block" ->
            LET s1 == NewEnvironment(s0, s0.environment) IN
            ExecuteBlock(s1, stmt.statements, NewestEnv(s1))
      [] stmt.kind = "Class" ->
            LET s1 == Define(s0, s0.environment, stmt.name.lexeme, NoneV)
                methods == MethodTable(s1, stmt.methods, 1, EmptyMap)
                s2 == NewClass(Emit(s1, [e |-> "class", name |-> stmt.name.lexeme,
                                         superclass |-> stmt.superclass,
                                         methods |-> DOMAIN methods]),
                               stmt.name.lexeme, NoneV, methods)
                a == EnvAssign(s2, s2.environment, stmt.name, ClassV(Len(s2.classes)))
            IN Ok(IF a.k = "Ok" THEN a.st ELSE s2, NoneV)

\* The statement loop of Interpreter::execute_block.
ExecuteStatements(st, stmts, i) ==
    IF i > Len(stmts) THEN Ok(st, NoneV)
    ELSE LET r == Execute(st, stmts[i]) IN
         IF r.k # "Ok" THEN r ELSE ExecuteStatements(r.st, stmts, i + 1)

\* An execute_block that restores the previous environment only when the
\* statements ran to the end.
execute_blockLeakingOnError(st, stmts, env) ==
    LET previous == st.environment
        r == ExecuteStatements([st EXCEPT !.environment = env], Flatten(stmts), 1)
    IN IF Aborted(r) \/ r.k # "Ok" THEN r
       ELSE [r EXCEPT !.st.environment = previous]

\* Interpreter::execute_block: run the statements in `env`, then restore the
\* previous environment on either exit.
execute_block(st, stmts, env) ==
    LET previous == st.environment
        r == ExecuteStatements([st EXCEPT !.environment = env], Flatten(stmts), 1)
    IN IF Aborted(r) THEN r
       ELSE [r EXCEPT !.st.environment = previous]

\* Every return of execute is looked at: the trace notes a statement that
\* returned (Ok, a runtime error or a Return signal) with another current
\* environment than it began with.
Finished(t, r) ==
    IF Aborted(r) \/ r.st.environment = t.st.environment THEN r
    ELSE Noted(r, [e |-> "environment", kind |-> t.stmt.kind, k |-> r.k,
                   before |-> t.st.environment, after |-> r.st.environment])

\* Every evaluation of an expression the side-table holds a depth for is
\* looked at: the trace notes one for which the chain of environments from
\* the current one is shorter than depth + 1, or whose ancestor at that depth
\* has no binding of the name.
LookedUp(t, r) ==
    LET e == t.expr
        name == IF e.kind \in {"This", "Super"} THEN e.keyword.lexeme ELSE e.name.lexeme
        a == ancestor(t.st, t.st.environment, t.st.locals[e])
    IN IF e.kind \in {"Variable", "Assign", "This", "Super"}
          /\ e \in DOMAIN t.st.locals
          /\ (a = 0 \/ name \notin DOMAIN t.st.envs[a].values)
       THEN Noted(r, [e |-> "unbound", name |-> name, depth |-> t.st.locals[e],
                      chain_ends |-> (a = 0)])
       ELSE r

\* The dispatch of a recursive use to the body it names.
Step(t) ==
    CASE t.op = "evaluate" -> LookedUp(t, evaluate(t.st, t.expr))
      [] t.op = "execute" -> Finished(t, execute(t.st, t.stmt))
      [] t.op = "execute_block" -> execute_block(t.st, t.stmts, t.env)
      [] t.op = "call" -> call(t.st, t.f, t.arguments)

\* --------------------------------------------------------------- resolver
\* A Rust statement sequence `let x = v; ...`: v is evaluated to a value
\* before the rest, F, runs with it.
Let(v, F(_)) == CHOOSE y \in {F(x) : x \in {v}} : TRUE

\* The resolver state `rs` is [scopes, current_function, current_class], with
\* the interpreter's side-table `locals` it writes to and the error sink
\* (the messages reported and the HAD_ERROR flag they set).

\* Lox::parse_error / Lox::report, called by the resolver.
parse_error(rs, message) ==
    [rs EXCEPT !.errors = Append(@, message), !.had_error = TRUE]

\* Resolver::begin_scope.
begin_scope(rs) == [rs EXCEPT !.scopes = Append(@, EmptyMap)]

\* Resolver::end_scope.
end_scope(rs) ==
    IF Len(rs.scopes) = 0 THEN rs
    ELSE [rs EXCEPT !.scopes = SubSeq(@, 1, Len(@) - 1)]

\* scopes.last_mut().unwrap().insert(name, value).
ScopeInsert(rs, name, value) ==
    [rs EXCEPT !.scopes[Len(rs.scopes)] = Insert(@, name, value)]

\* A declare that looks for the name in every scope of the stack.
declareAgainstAllScopes(rs, name) ==
    IF Len(rs.scopes) = 0 THEN rs
    ELSE LET r1 == IF \E i \in 1..Len(rs.scopes) : name.lexeme \in DOMAIN rs.scopes[i]
                   THEN parse_error(rs, "Already a variable with this name in this scope.")
                   ELSE rs
         IN ScopeInsert(r1, name.lexeme, FALSE)

\* Resolver::declare.
declare(rs, name) ==
    IF Len(rs.scopes) = 0 THEN rs
    ELSE LET r1 == IF name.lexeme \in DOMAIN rs.scopes[Len(rs.scopes)]
                   THEN parse_error(rs, "Already a variable with this name in this scope.")
                   ELSE rs
         IN ScopeInsert(r1, name.lexeme, FALSE)

\* Resolver::define.
define(rs, name) ==
    IF Len(rs.scopes) = 0 THEN rs ELSE ScopeInsert(rs, name.lexeme, TRUE)

\* Interpreter::resolve.
resolve(rs, expr, depth) == [rs EXCEPT !.locals = Insert(@, expr, depth)]

\* The loop of Resolver::resolve_local, from scope i down to the outermost:
\* every scope that holds the name records its distance.
RECURSIVE ResolveLocalFrom(_, _, _, _)
ResolveLocalFrom(rs, expr, name, i) ==
    IF i < 1 THEN rs
    ELSE Let(IF name.lexeme \in DOMAIN rs.scopes[i]
             THEN resolve(rs, expr, Len(rs.scopes) - i)
             ELSE rs,
             LAMBDA r1 : ResolveLocalFrom(r1, expr, name, i - 1))

\* Resolver::resolve_local.
resolve_local(rs, expr, name) == ResolveLocalFrom(rs, expr, name, Len(rs.scopes))

\* The parameter loop of Resolver::resolve_function.
RECURSIVE DeclareParams(_, _, _)
DeclareParams(rs, params, i) ==
    IF i > Len(params) THEN rs
    ELSE Let(define(declare(rs, params[i]), params[i]),
             LAMBDA r1 : DeclareParams(r1, params, i + 1))

\* Notes in the resolver a statement that left the scope stack at another
\* height, or current_function or current_class at another value, than it
\* found them.
Balanced(before, stmt, after) ==
    IF /\ Len(after.scopes) = Len(before.scopes)
       /\ after.current_function = before.current_function
       /\ after.current_class = before.current_class
    THEN after
    ELSE [after EXCEPT !.unbalanced = Append(@, stmt.kind)]

RECURSIVE resolve_stmt(_, _), resolve_expr(_, _), resolve_stmt_list(_, _, _),
          resolve_function(_, _, _, _), ResolveExprs(_, _, _), ResolveMethods(_, _, _, _)

\* A resolve_function that leaves current_function as the body had it.
resolve_functionWithoutRestore(rs, params, body, func_type) ==
    Let(begin_scope([rs EXCEPT !.current_function = func_type]), LAMBDA r1 :
    Let(DeclareParams(r1, params, 1), LAMBDA r2 :
    Let(resolve_stmt_list(r2, Flatten(body), 1), LAMBDA r3 :
    end_scope(r3))))

\* A resolve_function that forgets to leave the function's scope.
resolve_functionWithoutEndScope(rs, params, body, func_type) ==
    LET enclosing_func == rs.current_function IN
    Let(begin_scope([rs EXCEPT !.current_function = func_type]), LAMBDA r1 :
    Let(DeclareParams(r1, params, 1), LAMBDA r2 :
    Let(resolve_stmt_list(r2, Flatten(body), 1), LAMBDA r3 :
    [r3 EXCEPT !.current_function = enclosing_func])))

\* Resolver::resolve_function.
resolve_function(rs, params, body, func_type) ==
    LET enclosing_func == rs.current_function IN
    Let(begin_scope([rs EXCEPT !.current_function = func_type]), LAMBDA r1 :
    Let(DeclareParams(r1, params, 1), LAMBDA r2 :
    Let(resolve_stmt_list(r2, Flatten(body), 1), LAMBDA r3 :
    [end_scope(r3) EXCEPT !.current_function = enclosing_func])))

\* Resolver::resolve_stmt_list (statements already flattened, from index i).
resolve_stmt_list(rs, stmts, i) ==
    IF i > Len(stmts) THEN rs
    ELSE Let(Balanced(rs, stmts[i], resolve_stmt(rs, stmts[i])),
             LAMBDA r1 : resolve_stmt_list(r1, stmts, i + 1))

\* The argument loop of Resolver::resolve_expr (Call).
ResolveExprs(rs, exprs, i) ==
    IF i > Len(exprs) THEN rs
    ELSE Let(resolve_expr(rs, exprs[i]),
             LAMBDA r1 : ResolveExprs(r1, exprs, i + 1))

\* The method loop of Resolver::resolve_stmt (Class); `name` is the token the
\* code compares with "init".
ResolveMethods(rs, name, methods, i) ==
    IF i > Len(methods) THEN rs
    ELSE Let(resolve_function(rs, methods[i].params, methods[i].body,
                              IF name.lexeme = "init" THEN "Initializer" ELSE "Method"),
             LAMBDA r1 : ResolveMethods(r1, name, methods, i + 1))

\* Resolver::resolve_stmt.
resolve_stmt(rs, stmt) ==
    CASE stmt.kind = "Block" ->
            Let(begin_scope(rs), LAMBDA r1 :
            Let(resolve_stmt_list(r1, Flatten(stmt.statements), 1), LAMBDA r2 :
            end_scope(r2)))
      [] stmt.kind = "Class" ->
            LET enclosing_class == rs.current_class IN
            Let(define(declare([rs EXCEPT !.current_class = "Class"], stmt.name),
                       stmt.name), LAMBDA r1 :
            Let(IF stmt.superclass.kind = "Variable"
                   /\ stmt.name.lexeme = stmt.superclass.name.lexeme
                THEN parse_error(r1, "A class cannot inherit from itself.")
                ELSE r1, LAMBDA r2 :
            Let(IF stmt.superclass.kind # "None"
                THEN ScopeInsert(
                        begin_scope(
                           resolve_expr([r2 EXCEPT !.current_class = "Subclass"],
                                        stmt.superclass)),
                        "super", TRUE)
                ELSE r2, LAMBDA r3 :
            Let(ScopeInsert(begin_scope(r3), "this", TRUE), LAMBDA r4 :
            Let(ResolveMethods(r4, stmt.name, stmt.methods, 1), LAMBDA r5 :
            Let(IF stmt.superclass.kind # "None" THEN end_scope(r5) ELSE r5,
                LAMBDA r6 :
            [end_scope(r6) EXCEPT !.current_class = enclosing_class]))))))
      [] stmt.kind = "Var" ->
            Let(declare(rs, stmt.name), LAMBDA r1 :
            Let(IF stmt.initializer.kind # "None"
                THEN resolve_expr(r1, stmt.initializer) ELSE r1, LAMBDA r2 :
            define(r2, stmt.name)))
      [] stmt.kind = "Function" ->
            Let(define(declare(rs, stmt.name), stmt.name), LAMBDA r1 :
            resolve_function(r1, stmt.params, stmt.body, "Function"))
      [] stmt.kind = "Expression" -> resolve_expr(rs, stmt.expression)
      [] stmt.kind = "If" ->
            Let(resolve_expr(rs, stmt.condition), LAMBDA r1 :
            Let(resolve_stmt(r1, stmt.then_branch), LAMBDA r2 :
            IF stmt.else_branch.kind # "None"
            THEN resolve_stmt(r2, stmt.else_branch) ELSE r2))
      [] stmt.kind = "Print" -> resolve_expr(rs, stmt.expression)
      [] stmt.kind = "Return" ->
            LET r1 == IF rs.current_function = "None"
                      THEN parse_error(rs, "Can't return from top-level code.")
                      ELSE rs
            IN IF stmt.value.kind = "None" THEN r1
               ELSE IF r1.current_function = "Initializer"
                    THEN parse_error(r1, "Can't return a value from an initializer")
                    ELSE resolve_expr(r1, stmt.value)
      [] stmt.kind = "While" ->
            Let(resolve_expr(rs, stmt.condition), LAMBDA r1 :
            resolve_stmt(r1, stmt.body))

\* Resolver::resolve_expr.
resolve_expr(rs, expr) ==
    CASE expr.kind = "Variable" ->
            LET top == Len(rs.scopes)
                r1 == IF top > 0 /\ expr.name.lexeme \in DOMAIN rs.scopes[top]
                         /\ ~rs.scopes[top][expr.name.lexeme]
                      THEN parse_error(rs,
                              "Can't read local variable in its own initializer.")
                      ELSE rs
            IN resolve_local(r1, expr, expr.name)
      [] expr.kind = "Assign" ->
            Let(resolve_expr(rs, expr.value), LAMBDA r1 :
            resolve_local(r1, expr, expr.name))
      [] expr.kind \in {"Binary", "Logical"} ->
            Let(resolve_expr(rs, expr.left), LAMBDA r1 :
            resolve_expr(r1, expr.right))
      [] expr.kind = "Call" ->
            Let(resolve_expr(rs, expr.callee), LAMBDA r1 :
            ResolveExprs(r1, expr.arguments, 1))
      [] expr.kind = "Get" -> resolve_expr(rs, expr.object)
      [] expr.kind = "Set" ->
            Let(resolve_expr(rs, expr.value), LAMBDA r1 :
            resolve_expr(r1, expr.object))
      [] expr.kind = "Super" ->
            LET r1 == IF rs.current_class = "None"
                      THEN parse_error(rs, "Can't use 'super' outside of a class.")
                      ELSE IF rs.current_class # "Subclass"
                           THEN parse_error(rs,
                                   "Can't use 'super' in a class with no superclass.")
                           ELSE rs
            IN resolve_local(r1, expr, expr.keyword)
      [] expr.kind = "This" ->
            IF rs.current_class = "None"
            THEN parse_error(rs, "Can't use 'this' outside of a class.")
            ELSE resolve_local(rs, expr, expr.keyword)
      [] expr.kind = "Grouping" -> resolve_expr(rs, expr.expression)
      [] expr.kind = "Literal" -> rs
      [] expr.kind = "Unary" -> resolve_expr(rs, expr.right)

\* Resolver::new.
NewResolver(side_table, had_error) ==
    [scopes |-> <<>>, current_function |-> "None", current_class |-> "None",
     locals |-> side_table, errors |-> <<>>, had_error |-> had_error,
     unbalanced |-> <<>>]

\* ----------------------------------------------------------------- parser
\* A token that carries a literal (Number, String).
Lit(token_type, lexeme, literal) ==
    [token_type |-> token_type, lexeme |-> lexeme, line |-> 1, literal |-> literal]

\* The parser state `ps` is [tokens, current] (current counts from 0 as in
\* the code, so the token at current is tokens[current + 1]), with the
\* messages it reported to the error sink, a log of what it did (errors,
\* synchronizations, declarations) and whether it panicked.
NewParser(toks) ==
    [tokens |-> toks, current |-> 0, errors |-> <<>>, log |-> <<>>, panic |-> FALSE]

\* The outcomes of a Result<T, ParseError>.
Parsed(ps, v) == [ps |-> ps, k |-> "Ok", v |-> v]
ParseError(ps) == [ps |-> ps, k |-> "Err", v |-> None]

\* Parser::peek.
peek(ps) == ps.tokens[ps.current + 1]

\* Parser::previous.
previous(ps) == ps.tokens[ps.current]

\* Parser::is_at_end.
is_at_end(ps) == peek(ps).token_type = "Eof"

\* Parser::check.
check(ps, token_type) ==
    IF is_at_end(ps) THEN FALSE ELSE peek(ps).token_type = token_type

\* Parser::advance (the parser it leaves): at the end it does not move and
\* returns previous(), which panics when there is no previous token.
advance(ps) ==
    IF ~is_at_end(ps) THEN [ps EXCEPT !.current = @ + 1]
    ELSE IF ps.current = 0 THEN [ps EXCEPT !.panic = TRUE]
    ELSE ps

\* Parser::is_match_advance.
is_match_advance(ps, token_types) ==
    IF \E t \in token_types : check(ps, t)
    THEN [ps |-> advance(ps), matched |-> TRUE]
    ELSE [ps |-> ps, matched |-> FALSE]

\* Parser::error with Lox::parse_error: report the message at the token at
\* position `at`.
error(ps, at, message) ==
    [ps EXCEPT !.errors = Append(@, message),
               !.log = Append(@, [e |-> "error", at |-> at, message |-> message])]

\* Parser::consume.
consume(ps, token_type, message) ==
    IF check(ps, token_type)
    THEN Parsed(advance(ps), previous(advance(ps)))
    ELSE ParseError(error(ps, ps.current, message))

\* The tokens at which Parser::synchronize stops.
StatementStart == {"Class", "For", "Fn", "If", "Print", "Return", "Var", "While"}

\* The loop of Parser::synchronize.
RECURSIVE SynchronizeLoop(_)
SynchronizeLoop(ps) ==
    IF ps.panic \/ is_at_end(ps) THEN ps
    ELSE IF previous(ps).token_type = "Semicolon" THEN ps
    ELSE IF peek(ps).token_type \in StatementStart THEN ps
    ELSE SynchronizeLoop(advance(ps))

\* Parser::synchronize.
synchronize(ps) ==
    Let(SynchronizeLoop(advance(ps)), LAMBDA p1 :
    [p1 EXCEPT !.log = Append(@, [e |-> "synchronize", from |-> ps.current,
                                  to |-> p1.current])])

\* The functions of the parser call each other recursively.  Each such call
\* is a request Rule(name, ps) to the one recursive operator ParseStep, which
\* dispatches it to the function it names.
RECURSIVE ParseStep(_)

Rule(name, ps) == ParseStep([op |-> name, ps |-> ps])


\* Parser::primary.
primary(ps) ==
    LET lit == is_match_advance(ps, {"Number", "String"})
        true == is_match_advance(ps, {"True"})
        false == is_match_advance(ps, {"False"})
        nil == is_match_advance(ps, {"Nil"})
        paren == is_match_advance(ps, {"LeftParen"})
        ident == is_match_advance(ps, {"Identifier"})
    IN CASE lit.matched -> Parsed(lit.ps, Literal(previous(lit.ps).literal))
         [] true.matched -> Parsed(true.ps, Literal(BooleanV(TRUE)))
         [] false.matched -> Parsed(false.ps, Literal(BooleanV(FALSE)))
         [] nil.matched -> Parsed(nil.ps, Literal(NoneV))
         [] paren.matched ->
               Let(Rule("expression", paren.ps), LAMBDA expr :
               IF expr.k # "Ok" THEN expr
               ELSE Let(consume(expr.ps, "RightParen", "Expect ')' after expression."),
                        LAMBDA c :
                    IF c.k # "Ok" THEN c ELSE Parsed(c.ps, Grouping(expr.v))))
         [] ident.matched ->
               Parsed(ident.ps, [kind |-> "Variable", name |-> previous(ident.ps)])
         [] OTHER -> ParseError(error(ps, ps.current, "Expect expression."))

\* The cap on the arguments of a call and on the parameters of a function.
ArgumentCap == 255
ParameterCap == 255

\* A test that lets one argument more through.
TooManyArgumentsAfterOneMore(n) == n > ArgumentCap

\* `arguments.len() >= 255` in Parser::finish_call.
TooManyArguments(n) == n >= ArgumentCap

\* `params.len() >= 255` in Parser::function.
TooManyParameters(n) == n >= ParameterCap

\* One turn of the `loop` of Parser::finish_call on x = [ps, items, k]: k is
\* "loop" while the loop goes on, "done" after its break and "Err" after an
\* error left it.
ArgumentTurn(x) ==
    LET p1 == IF TooManyArguments(Len(x.items))
              THEN error(x.ps, x.ps.current, "Can't have more than 255 arguments.")
              ELSE x.ps
    IN Let(Rule("expression", p1), LAMBDA expr :
       IF expr.k # "Ok" THEN [ps |-> expr.ps, items |-> x.items, k |-> "Err"]
       ELSE LET m == is_match_advance(expr.ps, {"Comma"}) IN
            [ps |-> m.ps, items |-> Append(x.items, expr.v),
             k |-> IF m.matched THEN "loop" ELSE "done"])

\* One turn of the `loop` of Parser::function.
ParameterTurn(x) ==
    LET p1 == IF TooManyParameters(Len(x.items))
              THEN error(x.ps, x.ps.current, "Can't have more than 255 parameters.")
              ELSE x.ps
    IN Let(consume(p1, "Identifier", "Expect parameter name."), LAMBDA c :
       IF c.k # "Ok" THEN [ps |-> c.ps, items |-> x.items, k |-> "Err"]
       ELSE LET m == is_match_advance(c.ps, {"Comma"}) IN
            [ps |-> m.ps, items |-> Append(x.items, c.v),
             k |-> IF m.matched THEN "loop" ELSE "done"])

\* A `loop` run for at most n turns, which is all its turns when n is the
\* number of tokens left, as every turn consumes one.  The turns are taken in
\* order, the first half before the second, so that a loop of several hundred
\* turns nests only as deep as the logarithm of their number.
RECURSIVE Turns(_, _, _)
Turns(turn, x, n) ==
    IF x.k # "loop" \/ n = 0 THEN x
    ELSE IF n = 1 THEN IF turn = "argument" THEN ArgumentTurn(x) ELSE ParameterTurn(x)
    ELSE Let(Turns(turn, x, n \div 2), LAMBDA y : Turns(turn, y, n - (n \div 2)))

\* The tokens from the current one to the last.
TokensLeft(ps) == Len(ps.tokens) - ps.current

\* Parser::finish_call.
finish_call(ps, callee) ==
    Let(IF ~check(ps, "RightParen")
        THEN Turns("argument", [ps |-> ps, items |-> <<>>, k |-> "loop"], TokensLeft(ps))
        ELSE [ps |-> ps, items |-> <<>>, k |-> "done"], LAMBDA arguments :
    IF arguments.k = "Err" THEN ParseError(arguments.ps)
    ELSE Let(consume(arguments.ps, "RightParen", "Expect ')' after arguments."),
             LAMBDA paren :
         IF paren.k # "Ok" THEN paren
         ELSE Parsed(paren.ps, [kind |-> "Call", callee |-> callee, paren |-> paren.v,
                                arguments |-> arguments.items])))

\* The loop of Parser::call.
RECURSIVE CallLoop(_, _)
CallLoop(ps, expr) ==
    LET m == is_match_advance(ps, {"LeftParen"}) IN
    IF ~m.matched THEN Parsed(ps, expr)
    ELSE Let(finish_call(m.ps, expr), LAMBDA r :
         IF r.k # "Ok" THEN r ELSE CallLoop(r.ps, r.v))

\* Parser::call.
call_expr(ps) ==
    Let(Rule("primary", ps), LAMBDA expr :
    IF expr.k # "Ok" THEN expr ELSE CallLoop(expr.ps, expr.v))

\* Parser::unary.
unary(ps) ==
    LET m == is_match_advance(ps, {"Bang", "Minus"}) IN
    IF m.matched
    THEN Let(Rule("unary", m.ps), LAMBDA expr :
         IF expr.k # "Ok" THEN expr
         ELSE Parsed(expr.ps, [kind |-> "Unary", operator |-> previous(m.ps),
                               right |-> expr.v]))
    ELSE Rule("call", ps)

\* The binary levels.  Each Parser::<level> parses an operand with the level
\* below it and then runs its `while self.is_match_advance(..)` loop, so that
\* the first thing any of them parses is a unary, which then goes up through
\* the loops of the levels below and the level's own.  <Level>Loop(expr) is the
\* loop of a level, `expr` being the result of the operand parsed last folded
\* with what came before it.
Fold(kind, left, op, right) ==
    [kind |-> kind, left |-> left, operator |-> op, right |-> right]

\* Parser::factor.
RECURSIVE FactorLoop(_)
FactorLoop(expr) ==
    IF expr.k # "Ok" THEN expr
    ELSE LET m == is_match_advance(expr.ps, {"Slash", "Star"})
             right == Rule("unary", m.ps)
         IN IF ~m.matched THEN expr
            ELSE IF right.k # "Ok" THEN right
            ELSE FactorLoop(Parsed(right.ps,
                        Fold("Binary", expr.v, previous(m.ps), right.v)))

factor(ps) ==
    Let(Rule("unary", ps), LAMBDA u :
    FactorLoop(u))

\* Parser::term.
RECURSIVE TermLoop(_)
TermLoop(expr) ==
    IF expr.k # "Ok" THEN expr
    ELSE LET m == is_match_advance(expr.ps, {"Minus", "Plus"})
             right == Rule("factor", m.ps)
         IN IF ~m.matched THEN expr
            ELSE IF right.k # "Ok" THEN right
            ELSE TermLoop(Parsed(right.ps,
                        Fold("Binary", expr.v, previous(m.ps), right.v)))

term(ps) ==
    Let(Rule("unary", ps), LAMBDA u :
    TermLoop(FactorLoop(u)))

\* Parser::comparison.
RECURSIVE ComparisonLoop(_)
ComparisonLoop(expr) ==
    IF expr.k # "Ok" THEN expr
    ELSE LET m == is_match_advance(expr.ps, {"Greater", "GreaterEqual", "Less", "LessEqual"})
             right == Rule("term", m.ps)
         IN IF ~m.matched THEN expr
            ELSE IF right.k # "Ok" THEN right
            ELSE ComparisonLoop(Parsed(right.ps,
                        Fold("Binary", expr.v, previous(m.ps), right.v)))

comparison(ps) ==
    Let(Rule("unary", ps), LAMBDA u :
    ComparisonLoop(TermLoop(FactorLoop(u))))

\* Parser::equality.
RECURSIVE EqualityLoop(_)
EqualityLoop(expr) ==
    IF expr.k # "Ok" THEN expr
    ELSE LET m == is_match_advance(expr.ps, {"BangEqual", "EqualEqual"})
             right == Rule("comparison", m.ps)
         IN IF ~m.matched THEN expr
            ELSE IF right.k # "Ok" THEN right
            ELSE EqualityLoop(Parsed(right.ps,
                        Fold("Binary", expr.v, previous(m.ps), right.v)))

equality(ps) ==
    Let(Rule("unary", ps), LAMBDA u :
    EqualityLoop(ComparisonLoop(TermLoop(FactorLoop(u)))))

\* Parser::and.
RECURSIVE AndLoop(_)
AndLoop(expr) ==
    IF expr.k # "Ok" THEN expr
    ELSE LET m == is_match_advance(expr.ps, {"And"})
             right == Rule("equality", m.ps)
         IN IF ~m.matched THEN expr
            ELSE IF right.k # "Ok" THEN right
            ELSE AndLoop(Parsed(right.ps,
                        Fold("Logical", expr.v, previous(m.ps), right.v)))

logic_and(ps) ==
    Let(Rule("unary", ps), LAMBDA u :
    AndLoop(EqualityLoop(ComparisonLoop(TermLoop(FactorLoop(u))))))

\* Parser::or.
RECURSIVE OrLoop(_)
OrLoop(expr) ==
    IF expr.k # "Ok" THEN expr
    ELSE LET m == is_match_advance(expr.ps, {"Or"})
             right == Rule("logic_and", m.ps)
         IN IF ~m.matched THEN expr
            ELSE IF right.k # "Ok" THEN right
            ELSE OrLoop(Parsed(right.ps,
                        Fold("Logical", expr.v, previous(m.ps), right.v)))

logic_or(ps) ==
    Let(Rule("unary", ps), LAMBDA u :
    OrLoop(AndLoop(EqualityLoop(ComparisonLoop(TermLoop(FactorLoop(u)))))))

\* Parser::assignment.
assignment(ps) ==
    Let(Rule("logic_or", ps), LAMBDA expr :
    IF expr.k # "Ok" THEN expr
    ELSE LET m == is_match_advance(expr.ps, {"Equal"}) IN
         IF ~m.matched THEN expr
         ELSE Let(Rule("assignment", m.ps), LAMBDA value :
              IF value.k # "Ok" THEN value
              ELSE IF expr.v.kind = "Variable"
                   THEN Parsed(value.ps, [kind |-> "Assign", name |-> expr.v.name,
                                          value |-> value.v])
                   ELSE ParseError(error(value.ps, m.ps.current - 1,
                                         "Invalid assignment target."))))

\* Parser::expression.
expression(ps) == Rule("assignment", ps)

\* Parser::expression_statement.
expression_statement(ps) ==
    Let(expression(ps), LAMBDA expr :
    IF expr.k # "Ok" THEN expr
    ELSE Let(consume(expr.ps, "Semicolon", "Expect ';' after expression."), LAMBDA c :
         IF c.k # "Ok" THEN c ELSE Parsed(c.ps, Expression(expr.v))))

\* Parser::print_statement.
print_statement(ps) ==
    Let(expression(ps), LAMBDA expr :
    IF expr.k # "Ok" THEN expr
    ELSE Let(consume(expr.ps, "Semicolon", "Expect ';' after expression."), LAMBDA c :
         IF c.k # "Ok" THEN c ELSE Parsed(c.ps, PrintStmt(expr.v))))

\* Parser::var_declaration.
var_declaration(ps) ==
    Let(consume(ps, "Identifier", "Expect variable name."), LAMBDA name :
    IF name.k # "Ok" THEN name
    ELSE LET m == is_match_advance(name.ps, {"Equal"}) IN
         Let(IF m.matched THEN expression(m.ps) ELSE Parsed(m.ps, None),
             LAMBDA initializer :
         IF initializer.k # "Ok" THEN initializer
         ELSE Let(consume(initializer.ps, "Semicolon",
                          "Expect ';' after variable declaration."), LAMBDA c :
              IF c.k # "Ok" THEN c
              ELSE Parsed(c.ps, [kind |-> "Var", name |-> name.v,
                                 initializer |-> initializer.v]))))

\* Parser::if_statement.  The consume of each parenthesis is `let _ = ..`: its
\* error is reported and dropped.  statement()?.unwrap() panics on Ok(None).
if_statement(ps) ==
    Let(consume(ps, "LeftParen", "Expect '(' after 'if' .").ps, LAMBDA p1 :
    Let(expression(p1), LAMBDA condition :
    IF condition.k # "Ok" THEN condition
    ELSE Let(consume(condition.ps, "RightParen", "Expect ')' after if condition.").ps,
             LAMBDA p2 :
         Let(Rule("statement", p2), LAMBDA then_branch :
         IF then_branch.k # "Ok" THEN then_branch
         ELSE IF then_branch.v = None
              THEN ParseError([then_branch.ps EXCEPT !.panic = TRUE])
         ELSE LET m == is_match_advance(then_branch.ps, {"Else"}) IN
              Let(IF m.matched THEN Rule("statement", m.ps) ELSE Parsed(m.ps, None),
                  LAMBDA else_branch :
              IF else_branch.k # "Ok" THEN else_branch
              ELSE Parsed(else_branch.ps,
                          If(condition.v, then_branch.v, else_branch.v)))))))

\* Parser::while_statement.
while_statement(ps) ==
    Let(consume(ps, "LeftParen", "Expect '(' after 'while'.").ps, LAMBDA p1 :
    Let(expression(p1), LAMBDA condition :
    IF condition.k # "Ok" THEN condition
    ELSE Let(consume(condition.ps, "RightParen", "Expect ')' after condition.").ps,
             LAMBDA p2 :
         Let(Rule("statement", p2), LAMBDA body :
         IF body.k # "Ok" THEN body
         ELSE IF body.v = None THEN ParseError([body.ps EXCEPT !.panic = TRUE])
         ELSE Parsed(body.ps, While(condition.v, body.v))))))

\* The tree Parser::for_statement builds from its clauses and body (None for
\* a clause that is absent).
Desugar(initializer, condition, increment, body) ==
    LET b1 == IF increment # None THEN Block(<<body, Expression(increment)>>) ELSE body
        c1 == IF condition = None THEN Literal(BooleanV(TRUE)) ELSE condition
        b2 == While(c1, b1)
    IN IF initializer # None THEN Block(<<initializer, b2>>) ELSE b2

\* Parser::for_statement.
for_statement(ps) ==
    Let(consume(ps, "LeftParen", "Expect '(' after 'for'.").ps, LAMBDA p1 :
    LET semi == is_match_advance(p1, {"Semicolon"})
        var == is_match_advance(p1, {"Var"})
    IN
    Let(IF semi.matched THEN Parsed(semi.ps, None)
        ELSE IF var.matched THEN var_declaration(var.ps)
        ELSE expression_statement(p1), LAMBDA initializer :
    IF initializer.k # "Ok" THEN initializer
    ELSE
    Let(IF ~check(initializer.ps, "Semicolon") THEN expression(initializer.ps)
        ELSE Parsed(initializer.ps, None), LAMBDA condition :
    IF condition.k # "Ok" THEN condition
    ELSE
    Let(consume(condition.ps, "Semicolon", "Expect ';' after loop condition"),
        LAMBDA c :
    IF c.k # "Ok" THEN c
    ELSE
    Let(IF ~check(c.ps, "RightParen") THEN expression(c.ps) ELSE Parsed(c.ps, None),
        LAMBDA increment :
    IF increment.k # "Ok" THEN increment
    ELSE
    Let(consume(increment.ps, "RightParen", "Expect ')' after for clauses.").ps,
        LAMBDA p2 :
    Let(Rule("statement", p2), LAMBDA body :
    IF body.k # "Ok" THEN body
    ELSE IF body.v = None THEN ParseError([body.ps EXCEPT !.panic = TRUE])
    ELSE Parsed(body.ps,
                Desugar(initializer.v, condition.v, increment.v, body.v)))))))))

\* The loop of Parser::block.
RECURSIVE BlockLoop(_, _)
BlockLoop(ps, stmts) ==
    IF check(ps, "RightBrace") \/ is_at_end(ps) \/ ps.panic THEN Parsed(ps, stmts)
    ELSE Let(Rule("declaration", ps), LAMBDA d :
         BlockLoop(d.ps, Append(stmts, d.v)))

\* Parser::block.
block(ps) ==
    Let(BlockLoop(ps, <<>>), LAMBDA stmts :
    Let(consume(stmts.ps, "RightBrace", "Expect '}' after block."), LAMBDA c :
    IF c.k # "Ok" THEN c ELSE Parsed(c.ps, stmts.v)))

\* Parser::statement.
statement(ps) ==
    LET for == is_match_advance(ps, {"For"})
        if == is_match_advance(ps, {"If"})
        print == is_match_advance(ps, {"Print"})
        while == is_match_advance(ps, {"While"})
        brace == is_match_advance(ps, {"LeftBrace"})
    IN CASE for.matched -> for_statement(for.ps)
         [] if.matched -> if_statement(if.ps)
         [] print.matched -> print_statement(print.ps)
         [] while.matched -> while_statement(while.ps)
         [] brace.matched ->
               Let(Rule("block", brace.ps), LAMBDA b :
               IF b.k # "Ok" THEN b ELSE Parsed(b.ps, Block(b.v)))
         [] OTHER -> expression_statement(ps)

\* Parser::function.  The consumes of ')' and '{' are `let _ = ..`.
function(ps, kind) ==
    Let(consume(ps, "Identifier", "Expect " \o kind \o " name."), LAMBDA name :
    IF name.k # "Ok" THEN name
    ELSE
    Let(consume(name.ps, "LeftParen", "Expect '(' after " \o kind \o " name."),
        LAMBDA paren :
    IF paren.k # "Ok" THEN paren
    ELSE
    Let(IF ~check(paren.ps, "RightParen")
        THEN Turns("parameter", [ps |-> paren.ps, items |-> <<>>, k |-> "loop"],
                   TokensLeft(paren.ps))
        ELSE [ps |-> paren.ps, items |-> <<>>, k |-> "done"], LAMBDA params :
    IF params.k = "Err" THEN ParseError(params.ps)
    ELSE
    Let(consume(params.ps, "RightParen", "Expect ')' after parameters.").ps,
        LAMBDA p1 :
    Let(consume(p1, "LeftBrace", "Expect '{' before " \o kind \o " body.").ps,
        LAMBDA p2 :
    Let(Rule("block", p2), LAMBDA body :
    IF body.k # "Ok" THEN body
    ELSE Parsed(body.ps, [kind |-> "Function", name |-> name.v,
                          params |-> params.items, body |-> body.v])))))))

\* Parser::declaration: a statement, or None after an error and the
\* synchronization that follows it.  The log notes the tokens it covered.
declaration(ps) ==
    LET fn == is_match_advance(ps, {"Fn"})
        var == is_match_advance(ps, {"Var"})
    IN
    Let(IF fn.matched THEN function(fn.ps, "function")
        ELSE IF var.matched THEN var_declaration(var.ps)
        ELSE Rule("statement", ps), LAMBDA r :
    Let(IF r.k = "Ok" THEN r ELSE Parsed(synchronize(r.ps), None), LAMBDA d :
    Parsed([d.ps EXCEPT !.log = Append(@, [e |-> "declaration", from |-> ps.current,
                                           to |-> d.ps.current,
                                           some |-> d.v # None])],
           d.v)))

\* The dispatch of a request to the function it names.
ParseStep(t) ==
    CASE t.op = "declaration" -> declaration(t.ps)
      [] t.op = "statement" -> statement(t.ps)
      [] t.op = "block" -> block(t.ps)
      [] t.op = "expression" -> expression(t.ps)
      [] t.op = "assignment" -> assignment(t.ps)
      [] t.op = "logic_or" -> logic_or(t.ps)
      [] t.op = "logic_and" -> logic_and(t.ps)
      [] t.op = "equality" -> equality(t.ps)
      [] t.op = "comparison" -> comparison(t.ps)
      [] t.op = "term" -> term(t.ps)
      [] t.op = "factor" -> factor(t.ps)
      [] t.op = "unary" -> unary(t.ps)
      [] t.op = "call" -> call_expr(t.ps)
      [] t.op = "primary" -> primary(t.ps)

\* ---------------------------------------------------------------- sources
\* A source is what Scanner::scan_tokens and Parser::parse hand to Lox::run:
\* the Vec<Option<Stmt>> (None where a declaration failed to parse) and the
\* number of syntax errors reported while producing it.
Source(name, stmts, syntax_errors) ==
    [name |-> name, statements |-> stmts, syntax_errors |-> syntax_errors]

Num(n) == Literal(NumberV(n))
Str(s) == Literal(StringV(s))
True == Literal(BooleanV(TRUE))
Nil == Literal(NoneV)
\* An expression whose evaluation raises a runtime error: "hi" + 1.
Bad == Binary(Str("hi"), "Plus", Num(1))
ExprStmt(e) == Expression(e)
CallStmt(name, args) == Expression(CallE(Variable(name), args))

Names == <<"p", "q", "r">>
ParamNames(m) == [i \in 1..m |-> Names[i]]
NumArgs(n) == [i \in 1..n |-> Num(i)]

\* The statement kinds in which an evaluation can fail.
FailingStmt(kind) ==
    CASE kind = "Expression" -> Expression(Bad)
      [] kind = "Print" -> PrintStmt(Bad)
      [] kind = "Var" -> Var("x", Bad)
      [] kind = "Return" -> Return(Bad)
      [] kind = "If" -> If(Bad, PrintStmt(Str("then")), None)
      [] kind = "While" -> While(Bad, PrintStmt(Str("loop")))

FailKinds == {"Expression", "Print", "Var", "If", "While"}

\* <failing statement>  print "after";
FailTop(kind) ==
    Source("FailTop", <<FailingStmt(kind), PrintStmt(Str("after"))>>, 0)

\* { print "in"; <failing statement>  print "later"; }  print "after";
FailBlock(kind) ==
    Source("FailBlock",
           <<Block(<<PrintStmt(Str("in")), FailingStmt(kind), PrintStmt(Str("later"))>>),
             PrintStmt(Str("after"))>>, 0)

\* fn f() { <failing statement>  print "later"; }  print f();  print "after";
FailFn(kind) ==
    Source("FailFn",
           <<Function("f", <<>>, <<FailingStmt(kind), PrintStmt(Str("later"))>>),
             PrintStmt(CallE(Variable("f"), <<>>)),
             PrintStmt(Str("after"))>>, 0)

\* fn makeCounter() { var i = 0; fn count() { i = i + 1; print i; } return count; }
\* var c = makeCounter();  c();  c();
Counter ==
    Source("Counter",
           <<Function("makeCounter", <<>>,
                <<Var("i", Num(0)),
                  Function("count", <<>>,
                     <<Expression(Assign("i", Binary(Variable("i"), "Plus", Num(1)))),
                       PrintStmt(Variable("i"))>>),
                  Return(Variable("count"))>>),
             Var("c", CallE(Variable("makeCounter"), <<>>)),
             CallStmt("c", <<>>),
             CallStmt("c", <<>>)>>, 0)

\* fn f(n) { if (n > 0) f(n - 1); print n; }  f(1);
Recursion ==
    Source("Recursion",
           <<Function("f", <<"n">>,
                <<If(Binary(Variable("n"), "Greater", Num(0)),
                     CallStmt("f", <<Binary(Variable("n"), "Minus", Num(1))>>), None),
                  PrintStmt(Variable("n"))>>),
             CallStmt("f", <<Num(1)>>)>>, 0)

\* A statement wrapped k times in a block, an if or a while, by turns.
RECURSIVE Nest(_, _, _)
Nest(stmt, wrapper, k) ==
    IF k = 0 THEN stmt
    ELSE LET inner == Nest(stmt, CASE wrapper = "Block" -> "If"
                                   [] wrapper = "If" -> "While"
                                   [] OTHER -> "Block", k - 1)
         IN CASE wrapper = "Block" -> Block(<<PrintStmt(Str("enter")), inner,
                                               PrintStmt(Str("later"))>>)
              [] wrapper = "If" -> If(True, inner, None)
              [] OTHER -> While(True, inner)

Wrappers == {"Block", "If", "While"}

\* fn f() { <return nested k deep>  print "later"; }  print f();  print "after";
NestedReturn(wrapper, k, value) ==
    Source("NestedReturn",
           <<Function("f", <<>>,
                <<Nest(Return(value), wrapper, k), PrintStmt(Str("later"))>>),
             PrintStmt(CallE(Variable("f"), <<>>)),
             PrintStmt(Str("after"))>>, 0)

\* fn f(p, ..) { print "body"; }  f(1, ..);  print "after";   (m params, n args)
ArityFn(m, n) ==
    Source("ArityFn",
           <<Function("f", ParamNames(m), <<PrintStmt(Str("body"))>>),
             CallStmt("f", NumArgs(n)),
             PrintStmt(Str("after"))>>, 0)

\* class C { init(p, ..) { print "body"; } }  C(1, ..);  print "after";
ArityInit(m, n) ==
    Source("ArityInit",
           <<Class("C", None, <<Function("init", ParamNames(m),
                                          <<PrintStmt(Str("body"))>>)>>),
             CallStmt("C", NumArgs(n)),
             PrintStmt(Str("after"))>>, 0)

\* clock(1, ..);  print clock() == clock();   (n arguments to the native)
ArityClock(n) ==
    Source("ArityClock",
           <<CallStmt("clock", NumArgs(n)),
             PrintStmt(Binary(CallE(Variable("clock"), <<>>), "EqualEqual",
                              CallE(Variable("clock"), <<>>)))>>, 0)

\* class P { init(x) { this.x = x; return; }  get() { return this.x; } }
\* var a = P(1);  var b = P(2);  print a.x;  print b.get();  print a.init(5).x;
Point ==
    Source("Point",
           <<Class("P", None,
                <<Function("init", <<"x">>,
                     <<Expression(Set(This, "x", Variable("x"))), Return(None)>>),
                  Function("get", <<>>, <<Return(Get(This, "x"))>>)>>),
             Var("a", CallE(Variable("P"), <<Num(1)>>)),
             Var("b", CallE(Variable("P"), <<Num(2)>>)),
             PrintStmt(Get(Variable("a"), "x")),
             PrintStmt(CallE(Get(Variable("b"), "get"), <<>>)),
             PrintStmt(Get(CallE(Get(Variable("a"), "init"), <<Num(5)>>), "x"))>>, 0)

\* class Q { init() { this.v = 1; } }  print Q().v;  var q = Q();
\* q.v = 2;  print q.init().v;
FallOff ==
    Source("FallOff",
           <<Class("Q", None,
                <<Function("init", <<>>, <<Expression(Set(This, "v", Num(1)))>>)>>),
             PrintStmt(Get(CallE(Variable("Q"), <<>>), "v")),
             Var("q", CallE(Variable("Q"), <<>>)),
             Expression(Set(Variable("q"), "v", Num(2))),
             PrintStmt(Get(CallE(Get(Variable("q"), "init"), <<>>), "v"))>>, 0)

\* class R { init() { this.v = 1; print "hi" + 1; this.w = 2; } }
\* var r = R();  print r.v;  print r;
FailInit ==
    Source("FailInit",
           <<Class("R", None,
                <<Function("init", <<>>,
                     <<Expression(Set(This, "v", Num(1))), PrintStmt(Bad),
                       Expression(Set(This, "w", Num(2)))>>)>>),
             Var("r", CallE(Variable("R"), <<>>)),
             PrintStmt(Get(Variable("r"), "v")),
             PrintStmt(Variable("r"))>>, 0)

\* class E {}  var e = E();  e.f = 3;  print e.f;  print E;  print e.g;
Empty ==
    Source("Empty",
           <<Class("E", None, <<>>),
             Var("e", CallE(Variable("E"), <<>>)),
             Expression(Set(Variable("e"), "f", Num(3))),
             PrintStmt(Get(Variable("e"), "f")),
             PrintStmt(Variable("E")),
             PrintStmt(Get(Variable("e"), "g"))>>, 0)

\* class A { m() { return 1; } }  class B < A { n() { return 2; } }
\* var b = B();  print b.n();  print b.m();
Inherit ==
    Source("Inherit",
           <<Class("A", None, <<Function("m", <<>>, <<Return(Num(1))>>)>>),
             Class("B", Variable("A"), <<Function("n", <<>>, <<Return(Num(2))>>)>>),
             Var("b", CallE(Variable("B"), <<>>)),
             PrintStmt(CallE(Get(Variable("b"), "n"), <<>>)),
             PrintStmt(CallE(Get(Variable("b"), "m"), <<>>))>>, 0)

\* class S { m() { return this.v; } }  var s = S();  s.v = "method";
\* var m = s.m;  print m();  s.m = "field";  print s.m;  print s.none;
FieldFirst ==
    Source("FieldFirst",
           <<Class("S", None, <<Function("m", <<>>, <<Return(Get(This, "v"))>>)>>),
             Var("s", CallE(Variable("S"), <<>>)),
             Expression(Set(Variable("s"), "v", Str("method"))),
             Var("m", Get(Variable("s"), "m")),
             PrintStmt(CallE(Variable("m"), <<>>)),
             Expression(Set(Variable("s"), "m", Str("field"))),
             PrintStmt(Get(Variable("s"), "m")),
             PrintStmt(Get(Variable("s"), "none"))>>, 0)

\* class K {}  var k = K();  print !true;  print !false;  print !nil;
\* print !0;  print !"";  print !clock;  print !K;  print !k;
Not ==
    Source("Not",
           <<Class("K", None, <<>>),
             Var("k", CallE(Variable("K"), <<>>)),
             PrintStmt(Unary("Bang", True)),
             PrintStmt(Unary("Bang", Literal(BooleanV(FALSE)))),
             PrintStmt(Unary("Bang", Nil)),
             PrintStmt(Unary("Bang", Num(0))),
             PrintStmt(Unary("Bang", Str(""))),
             PrintStmt(Unary("Bang", Variable("clock"))),
             PrintStmt(Unary("Bang", Variable("K"))),
             PrintStmt(Unary("Bang", Variable("k")))>>, 0)

\* class K {}  var k = K();  var j = K();  fn f() {}
\* print nil == nil;  print 1 == 1;  print "a" == "a";  print true == true;
\* print 1 == "1";  print k == k;  print k == j;  print K == K;  print f == f;
\* print clock == clock;
Equal ==
    Source("Equal",
           <<Class("K", None, <<>>),
             Var("k", CallE(Variable("K"), <<>>)),
             Var("j", CallE(Variable("K"), <<>>)),
             Function("f", <<>>, <<>>),
             PrintStmt(Binary(Nil, "EqualEqual", Nil)),
             PrintStmt(Binary(Num(1), "EqualEqual", Num(1))),
             PrintStmt(Binary(Str("a"), "EqualEqual", Str("a"))),
             PrintStmt(Binary(True, "EqualEqual", True)),
             PrintStmt(Binary(Num(1), "EqualEqual", Str("1"))),
             PrintStmt(Binary(Variable("k"), "EqualEqual", Variable("k"))),
             PrintStmt(Binary(Variable("k"), "EqualEqual", Variable("j"))),
             PrintStmt(Binary(Variable("K"), "EqualEqual", Variable("K"))),
             PrintStmt(Binary(Variable("f"), "EqualEqual", Variable("f"))),
             PrintStmt(Binary(Variable("clock"), "EqualEqual", Variable("clock")))>>, 0)

\* fn say(v) { print "eval"; return v; }  var a = 1;
\* print 0 or say(2);  print nil or say(2);  print false and say(2);
\* print "" and say(3);  print nil and say(2);  print true or (a = 2);  print a;
Logic ==
    Source("Logic",
           <<Function("say", <<"v">>, <<PrintStmt(Str("eval")), Return(Variable("v"))>>),
             Var("a", Num(1)),
             PrintStmt(Logical(Num(0), "Or", CallE(Variable("say"), <<Num(2)>>))),
             PrintStmt(Logical(Nil, "Or", CallE(Variable("say"), <<Num(2)>>))),
             PrintStmt(Logical(Literal(BooleanV(FALSE)), "And",
                               CallE(Variable("say"), <<Num(2)>>))),
             PrintStmt(Logical(Str(""), "And", CallE(Variable("say"), <<Num(3)>>))),
             PrintStmt(Logical(Nil, "And", CallE(Variable("say"), <<Num(2)>>))),
             PrintStmt(Logical(True, "Or", Grouping(Assign("a", Num(2))))),
             PrintStmt(Variable("a"))>>, 0)

\* fn f(p, ..) {}  fn pick() { print "callee"; return f; }
\* fn arg(i) { print i; return i; }  pick()(arg(1), ..);      (n arguments)
CallOrder(n) ==
    Source("CallOrder",
           <<Function("f", ParamNames(n), <<>>),
             Function("pick", <<>>, <<PrintStmt(Str("callee")), Return(Variable("f"))>>),
             Function("arg", <<"i">>, <<PrintStmt(Variable("i")), Return(Variable("i"))>>),
             Expression(CallE(CallE(Variable("pick"), <<>>),
                              [i \in 1..n |-> CallE(Variable("arg"), <<Num(i)>>)]))>>, 0)

\* var i = 0;  while (i < 2) { print i; i = i + 1; }  "s"();  print i;
Loop ==
    Source("Loop",
           <<Var("i", Num(0)),
             While(Binary(Variable("i"), "Less", Num(2)),
                   Block(<<PrintStmt(Variable("i")),
                           Expression(Assign("i", Binary(Variable("i"), "Plus",
                                                         Num(1))))>>)),
             Expression(CallE(Str("s"), <<>>)),
             PrintStmt(Variable("i"))>>, 0)

\* var a = 1;  { var a = 2; print a; }  print a;  print b;
Shadow ==
    Source("Shadow",
           <<Var("a", Num(1)),
             Block(<<Var("a", Num(2)), PrintStmt(Variable("a"))>>),
             PrintStmt(Variable("a")),
             PrintStmt(Variable("b"))>>, 0)

\* Sources for which the resolver reports a static error.
\* print "a";  return 1;  print "b";
TopReturn ==
    Source("TopReturn",
           <<PrintStmt(Str("a")), Return(Num(1)), PrintStmt(Str("b"))>>, 0)

\* var g = 1;  { var a = 1; var a = 2; }  print g;
Redeclare ==
    Source("Redeclare",
           <<Var("g", Num(1)), Block(<<Var("a", Num(1)), Var("a", Num(2))>>),
             PrintStmt(Variable("g"))>>, 0)

\* print "a";  print this;
ThisOutside == Source("ThisOutside", <<PrintStmt(Str("a")), PrintStmt(This)>>, 0)

\* Sources for which the parser reported errors: a declaration lost to panic
\* mode recovery, and a non-fatal error that lost none.
\* print "a";  print ;  var b = 1;
LostDeclaration ==
    Source("LostDeclaration", <<PrintStmt(Str("a")), None, Var("b", Num(1))>>, 1)

\* var a = 1;  if a) print a;      ("Expect '(' after 'if'." is not fatal)
NonFatal ==
    Source("NonFatal",
           <<Var("a", Num(1)), If(Variable("a"), PrintStmt(Variable("a")), None)>>, 1)

\* { class B < B { m() { return super.m; } }  var a = a;  return; }
SubclassInBlock ==
    Source("SubclassInBlock",
           <<Block(<<Class("B", Variable("B"),
                           <<Function("m", <<>>, <<Return(Super("m"))>>)>>),
                     Var("a", Variable("a")),
                     Return(None)>>)>>, 0)

\* class A { m() { class B < A { n(p) { { print this; } } } print B; } }
\* A().m();
SubclassInMethod ==
    Source("SubclassInMethod",
           <<Class("A", None,
                   <<Function("m", <<>>,
                        <<Class("B", Variable("A"),
                                <<Function("n", <<"p">>,
                                     <<Block(<<PrintStmt(This)>>)>>)>>),
                          PrintStmt(Variable("B"))>>)>>),
             Expression(CallE(Get(CallE(Variable("A"), <<>>), "m"), <<>>))>>, 0)

\* class <cname> { <mname>() { return 1; } }
ClassNames == {"P", "init"}
MethodNames == {"init", "m"}
ReturnInMethod(cname, mname) ==
    Source("ReturnIn_" \o cname \o "_" \o mname,
           <<Class(cname, None, <<Function(mname, <<>>, <<Return(Num(1))>>)>>)>>, 0)

\* Two declarations of the name `a`, each a variable, a function or a
\* parameter, placed in one scope or in two:
\*   Global       var a = 1;  var a = 1;
\*   Block        { var a = 1;  fn a() {} }
\*   Body         fn f() { var a = 1;  var a = 1; }
\*   Parameters   fn f(a, a) {}
\*   ParameterBody    fn f(a) { var a = 1; }
\*   Nested       { var a = 1;  { var a = 1; } }
\*   ParameterNested  fn f(a) { { var a = 1; } }
DeclKinds == {"Var", "Function"}
Decl(kind) == IF kind = "Var" THEN Var("a", Num(1)) ELSE Function("a", <<>>, <<>>)
SameScope == {"Block", "Body", "Parameters", "ParameterBody"}
OtherScope == {"Global", "Nested", "ParameterNested"}
DeclareTwice(place, k1, k2) ==
    Source("DeclareTwice_" \o place \o "_" \o k1 \o "_" \o k2,
       CASE place = "Global" -> <<Decl(k1), Decl(k2)>>
         [] place = "Block" -> <<Block(<<Decl(k1), Decl(k2)>>)>>
         [] place = "Body" -> <<Function("f", <<>>, <<Decl(k1), Decl(k2)>>)>>
         [] place = "Parameters" -> <<Function("f", <<"a", "a">>, <<>>)>>
         [] place = "ParameterBody" -> <<Function("f", <<"a">>, <<Decl(k2)>>)>>
         [] place = "Nested" -> <<Block(<<Decl(k1), Block(<<Decl(k2)>>)>>)>>
         [] place = "ParameterNested" ->
               <<Function("f", <<"a">>, <<Block(<<Decl(k2)>>)>>)>>, 0)

\* A return outside every function body:
\*   Top                 return v;
\*   TopNested           { .. if (true) while (true) return v; .. }
\*   AfterFunction       fn f() { return v; }  return v;
\*   AfterClass          class C { m() { return v; } }  return v;
\*   BlockAfterFunction  { fn f() { return v; }  return v; }
\* and returns that are all inside one:
\*   Function            fn f() { return v; }
\*   FunctionNested      fn f() { { .. if (true) while (true) return v; .. } }
\*   InnerFunction       fn f() { fn g() { return v; } }
\*   AfterInnerFunction  fn f() { fn g() { return v; }  return v; }
\*   Method              class C { m() { return v; } }
Outside == {"Top", "TopNested", "AfterFunction", "AfterClass", "BlockAfterFunction"}
Inside == {"Function", "FunctionNested", "InnerFunction", "AfterInnerFunction",
           "Method"}
ReturnValues == {None, Num(1)}
ReturnAt(place, wrapper, v) ==
    LET f == Function("f", <<>>, <<Return(v)>>)
        g == Function("g", <<>>, <<Return(v)>>)
        C == Class("C", None, <<Function("m", <<>>, <<Return(v)>>)>>)
    IN Source("ReturnAt_" \o place \o "_" \o wrapper \o "_" \o v.kind,
          CASE place = "Top" -> <<Return(v)>>
            [] place = "TopNested" -> <<Nest(Return(v), wrapper, MaxNest)>>
            [] place = "AfterFunction" -> <<f, Return(v)>>
            [] place = "AfterClass" -> <<C, Return(v)>>
            [] place = "BlockAfterFunction" -> <<Block(<<f, Return(v)>>)>>
            [] place = "Function" -> <<f>>
            [] place = "FunctionNested" ->
                  <<Function("f", <<>>, <<Nest(Return(v), wrapper, MaxNest)>>)>>
            [] place = "InnerFunction" -> <<Function("f", <<>>, <<g>>)>>
            [] place = "AfterInnerFunction" ->
                  <<Function("f", <<>>, <<g, Return(v)>>)>>
            [] place = "Method" -> <<C>>, 0)

\* One line with the same variable expression at two nesting depths.
\* { var a = 1; { print a; } print a; }
TwoDepths ==
    Source("TwoDepths",
           <<Block(<<Var("a", Num(1)), Block(<<PrintStmt(Variable("a"))>>),
                     PrintStmt(Variable("a"))>>)>>, 0)

\* var a = 0;  { var a = 1; { print a; } }  print a;
GlobalAfterLocal ==
    Source("GlobalAfterLocal",
           <<Var("a", Num(0)),
             Block(<<Var("a", Num(1)), Block(<<PrintStmt(Variable("a"))>>)>>),
             PrintStmt(Variable("a"))>>, 0)

\* A name declared in two enclosing local scopes, used once.
\* { var a = 1; { var a = 2; print a; } }
InnermostRead ==
    Source("InnermostRead",
           <<Block(<<Var("a", Num(1)),
                     Block(<<Var("a", Num(2)), PrintStmt(Variable("a"))>>)>>)>>, 0)

\* { var a = 1; { var a = 2; a = 3; } }
InnermostAssign ==
    Source("InnermostAssign",
           <<Block(<<Var("a", Num(1)),
                     Block(<<Var("a", Num(2)), Expression(Assign("a", Num(3)))>>)>>)>>,
           0)

Sources ==
    {FailTop(k) : k \in FailKinds} \cup {FailBlock(k) : k \in FailKinds}
      \cup {FailFn(k) : k \in FailKinds \cup {"Return"}}
      \cup {Counter, Recursion, Point, FallOff, FailInit, Empty, Inherit, FieldFirst,
            Not, Equal, Logic, Loop, Shadow,
            TopReturn, Redeclare, ThisOutside, LostDeclaration, NonFatal,
            TwoDepths, GlobalAfterLocal, InnermostRead, InnermostAssign,
            SubclassInBlock, SubclassInMethod}
      \cup {NestedReturn(w, k, v) : w \in Wrappers, k \in 0..MaxNest, v \in {None, Num(7)}}
      \cup {ArityFn(m, n) : m \in 0..MaxArity, n \in 0..MaxArity}
      \cup {ArityInit(m, n) : m \in 0..MaxArity, n \in 0..MaxArity}
      \cup {ArityClock(n) : n \in 0..MaxArity}
      \cup {CallOrder(n) : n \in 0..MaxArity}
      \cup {ReturnInMethod(c, m) : c \in ClassNames, m \in MethodNames}
      \cup {DeclareTwice(p, k1, k2) :
                p \in SameScope \cup OtherScope, k1 \in DeclKinds, k2 \in DeclKinds}
      \cup {ReturnAt(p, w, v) :
                p \in Outside \cup Inside, w \in Wrappers, v \in ReturnValues}

\* The lines typed at the prompt of Lox::run_prompt; the scanner starts every
\* line at line number 1.
\*   var a = 1;
DefLine == Source("DefLine", <<Var("a", Num(1))>>, 0)
\*   print a;
UseLine == Source("UseLine", <<PrintStmt(Variable("a"))>>, 0)
\*   { var a = 2; { print a; } }
BlockLine ==
    Source("BlockLine",
           <<Block(<<Var("a", Num(2)), Block(<<PrintStmt(Variable("a"))>>)>>)>>, 0)
\*   print ;
SyntaxErrorLine == Source("SyntaxErrorLine", <<None>>, 1)
\*   return 1;
StaticErrorLine == Source("StaticErrorLine", <<Return(Num(1))>>, 0)
\*   print "hi" + 1;
RuntimeErrorLine == Source("RuntimeErrorLine", <<PrintStmt(Bad)>>, 0)
\*   print 7;
PlainLine == Source("PlainLine", <<PrintStmt(Num(7))>>, 0)
ReplLines ==
    {DefLine, UseLine, BlockLine, SyntaxErrorLine, StaticErrorLine, RuntimeErrorLine,
     PlainLine}

\* The values SystemTime::now may give the native clock.
ClockValues == {0, 1}

\* ---------------------------------------------------------------- scanner
\* The scanner state `sc` is the source (a sequence of one-character strings,
\* all ASCII), the tokens pushed so far, start, current (counting from 0 as
\* in the code), line and in_comment_block; with the messages it gave to
\* Lox::error, the lines it printed itself, and whether it panicked.
NewScanner(text) ==
    [source |-> text, tokens |-> <<>>, start |-> 0, current |-> 0, line |-> 1,
     in_comment_block |-> FALSE, errors |-> <<>>, printed |-> <<>>, panic |-> FALSE]

Letters ==
    {"a", "b", "c", "d", "e", "f", "g", "h", "i", "j", "k", "l", "m", "n", "o", "p",
     "q", "r", "s", "t", "u", "v", "w", "x", "y", "z"}
Digits == {"0", "1", "2", "3", "4", "5", "6", "7", "8", "9"}
\* The character peek gives at the end of the source.
Nul == "NUL"

\* &self.source[from..to] as a string.
RECURSIVE Slice(_, _, _)
Slice(text, from, to) ==
    IF from >= to THEN "" ELSE text[from + 1] \o Slice(text, from + 1, to)

\* Scanner::is_at_end.
scanner_is_at_end(sc) == sc.current >= Len(sc.source)

\* Scanner::advance: the character at current; unwrap panics past the end.
scanner_advance(sc) ==
    IF sc.current >= Len(sc.source)
    THEN [sc |-> [sc EXCEPT !.panic = TRUE], c |-> Nul]
    ELSE [sc |-> [sc EXCEPT !.current = @ + 1], c |-> sc.source[sc.current + 1]]

\* Scanner::matches.
matches(sc, expected) ==
    IF sc.current >= Len(sc.source) \/ sc.source[sc.current + 1] # expected
    THEN [sc |-> sc, matched |-> FALSE]
    ELSE [sc |-> [sc EXCEPT !.current = @ + 1], matched |-> TRUE]

\* Scanner::peek.
scanner_peek(sc) == IF ~scanner_is_at_end(sc) THEN sc.source[sc.current + 1] ELSE Nul

\* Scanner::peek_next.
peek_next(sc) ==
    IF sc.current + 1 < Len(sc.source) THEN sc.source[sc.current + 2] ELSE Nul

\* Scanner::peek_prev: chars().nth(current - 1), the character just advanced
\* over.
peek_prev(sc) == sc.source[sc.current]

\* Lox::error, called by the scanner.
scanner_error(sc, message) == [sc EXCEPT !.errors = Append(@, message)]

\* Scanner::add_token: the lexeme is the source from start to current.
add_token(sc, token_type, literal) ==
    LET lexeme == Slice(sc.source, sc.start, sc.current) IN
    [sc EXCEPT !.tokens = Append(@,
        [token_type |-> token_type, lexeme |-> lexeme, literal |-> literal,
         line |-> sc.line])]

\* Scanner::add_token_no_lit.
add_token_no_lit(sc, token_type) == add_token(sc, token_type, NoneV)

\* Scanner::is_alpha, Scanner::is_alphanumeric.
is_alpha(c) == c \in Letters \/ c = "_"
is_alphanumeric(c) == c \in Digits \/ is_alpha(c)

\* Scanner::text2token.
text2token(text) ==
    CASE text = "and" -> "And"
      [] text = "class" -> "Class"
      [] text = "else" -> "Else"
      [] text = "false" -> "False"
      [] text = "for" -> "For"
      [] text = "fn" -> "Fn"
      [] text = "if" -> "If"
      [] text = "nil" -> "Nil"
      [] text = "or" -> "Or"
      [] text = "print" -> "Print"
      [] text = "return" -> "Return"
      [] text = "super" -> "Super"
      [] text = "this" -> "This"
      [] text = "true" -> "True"
      [] text = "var" -> "Var"
      [] text = "while" -> "While"
      [] OTHER -> "Identifier"

\* The loop of Scanner::add_string: up to the closing quote or the end.
RECURSIVE StringLoop(_)
StringLoop(sc) ==
    IF scanner_peek(sc) # "\"" /\ ~scanner_is_at_end(sc)
    THEN StringLoop(scanner_advance(
            IF scanner_peek(sc) = "\n" THEN [sc EXCEPT !.line = @ + 1] ELSE sc).sc)
    ELSE sc

\* Scanner::add_string.
add_string(sc) ==
    LET s1 == StringLoop(sc) IN
    IF scanner_is_at_end(s1) THEN scanner_error(s1, "Unterminated")
    ELSE LET s2 == scanner_advance(s1).sc
         IN add_token(s2, "String",
                      StringV(Slice(s2.source, s2.start + 1, s2.current - 1)))

\* while self.peek().is_ascii_digit() { self.advance(); }
RECURSIVE DigitLoop(_)
DigitLoop(sc) ==
    IF scanner_peek(sc) \in Digits THEN DigitLoop(scanner_advance(sc).sc) ELSE sc

\* The value of a string of digits.
RECURSIVE DigitsValue(_, _, _)
DigitsValue(text, from, to) ==
    IF from >= to THEN 0
    ELSE 10 * DigitsValue(text, from, to - 1)
           + (CHOOSE d \in 0..9 : Digit(d) = text[to])

\* str::parse::<f64> on the source from start to current.  The scanner hands
\* it digits with at most one point between them, or, after a block comment,
\* a text that begins with `*`, which is no number.  The literal is the
\* integer part and the digits after the point.
ParseNumber(sc) ==
    LET body == {sc.source[i] : i \in (sc.start + 1)..sc.current}
        points == {i \in (sc.start + 1)..sc.current : sc.source[i] = "."}
        point == IF points = {} THEN sc.current + 1 ELSE CHOOSE i \in points : TRUE
    IN IF body \subseteq Digits \cup {"."}
       THEN [ok |-> TRUE,
             val |-> [t |-> "Number",
                      n |-> DigitsValue(sc.source, sc.start, point - 1),
                      fraction |-> Slice(sc.source, point, sc.current)]]
       ELSE [ok |-> FALSE, val |-> NoneV]

\* Scanner::add_number.
add_number(sc) ==
    LET s1 == DigitLoop(sc)
        s2 == IF scanner_peek(s1) = "." /\ peek_next(s1) \in Digits
              THEN DigitLoop(scanner_advance(s1).sc)
              ELSE s1
        parsed == ParseNumber(s2)
    IN IF parsed.ok THEN add_token(s2, "Number", parsed.val)
       ELSE [s2 EXCEPT !.printed = Append(@, "invalid float literal")]

\* while Scanner::is_alphanumeric(self.peek()) { self.advance(); }
RECURSIVE IdentifierLoop(_)
IdentifierLoop(sc) ==
    IF is_alphanumeric(scanner_peek(sc))
    THEN IdentifierLoop(scanner_advance(sc).sc) ELSE sc

\* Scanner::add_identifier.
add_identifier(sc) ==
    LET s1 == IdentifierLoop(sc)
    IN add_token_no_lit(s1, text2token(Slice(s1.source, s1.start, s1.current)))

\* while self.peek() != '\n' && !self.is_at_end() { self.advance(); }
RECURSIVE LineCommentLoop(_)
LineCommentLoop(sc) ==
    IF scanner_peek(sc) # "\n" /\ ~scanner_is_at_end(sc)
    THEN LineCommentLoop(scanner_advance(sc).sc) ELSE sc

\* One or two character operators: `second` follows or not.
OneOrTwo(sc, second, two, one) ==
    LET m == matches(sc, second)
    IN add_token_no_lit(m.sc, IF m.matched THEN two ELSE one)

\* Scanner::scan_single_token.
scan_single_token(sc) ==
    LET a == scanner_advance(sc)
        s1 == a.sc
        next_char == a.c
    IN IF s1.panic THEN s1
       ELSE CASE next_char = "(" -> add_token_no_lit(s1, "LeftParen")
              [] next_char = ")" -> add_token_no_lit(s1, "RightParen")
              [] next_char = "{" -> add_token_no_lit(s1, "LeftBrace")
              [] next_char = "}" -> add_token_no_lit(s1, "RightBrace")
              [] next_char = "," -> add_token_no_lit(s1, "Comma")
              [] next_char = "." -> add_token_no_lit(s1, "Dot")
              [] next_char = "-" -> add_token_no_lit(s1, "Minus")
              [] next_char = "+" -> add_token_no_lit(s1, "Plus")
              [] next_char = ";" -> add_token_no_lit(s1, "Semicolon")
              [] next_char = "*" ->
                    IF s1.current = 1 /\ peek_prev(s1) = "/"
                    THEN [s1 EXCEPT !.in_comment_block = TRUE]
                    ELSE add_token_no_lit(s1, "Star")
              [] next_char = "!" -> OneOrTwo(s1, "=", "BangEqual", "Bang")
              [] next_char = "=" -> OneOrTwo(s1, "=", "EqualEqual", "Equal")
              [] next_char = ">" -> OneOrTwo(s1, "=", "GreaterEqual", "Greater")
              [] next_char = "<" -> OneOrTwo(s1, "=", "LessEqual", "Less")
              [] next_char = "/" ->
                    IF scanner_peek(s1) = "*"
                    THEN [s1 EXCEPT !.in_comment_block = TRUE]
                    ELSE LET m == matches(s1, "/")
                         IN IF m.matched THEN LineCommentLoop(m.sc)
                            ELSE add_token_no_lit(s1, "Slash")
              [] next_char \in {" ", "\r", "\t"} -> s1
              [] next_char = "\n" -> [s1 EXCEPT !.line = @ + 1]
              [] next_char = "\"" -> add_string(s1)
              [] next_char = "o" ->
                    LET m == matches(s1, "r")
                    IN IF m.matched THEN add_token_no_lit(m.sc, "Or") ELSE m.sc
              [] OTHER ->
                    IF next_char \in Digits THEN add_number(s1)
                    ELSE IF is_alpha(next_char) THEN add_identifier(s1)
                    ELSE [s1 EXCEPT !.printed = Append(@, "Unexpected character")]

\* The inner loop of Scanner::scan_tokens, lines 33-42: consume the block
\* comment up to a `*` that a `/` follows.
RECURSIVE BlockCommentLoop(_)
BlockCommentLoop(sc) ==
    IF scanner_is_at_end(sc) THEN sc
    ELSE LET a == scanner_advance(sc) IN
         IF a.c = "\n" THEN BlockCommentLoop([a.sc EXCEPT !.line = @ + 1])
         ELSE IF a.c = "*" /\ scanner_peek(a.sc) = "/"
              THEN [a.sc EXCEPT !.in_comment_block = FALSE]
              ELSE BlockCommentLoop(a.sc)

\* The loop of Scanner::scan_tokens, lines 28-57.  The result is the scanner
\* and whether scan_tokens is still to push Eof (`some`) or has returned None.
RECURSIVE ScanLoop(_)
ScanLoop(sc) ==
    IF sc.panic THEN [sc |-> sc, some |-> FALSE]
    ELSE IF scanner_is_at_end(sc) THEN [sc |-> sc, some |-> TRUE]
    ELSE LET s0 == [sc EXCEPT !.start = sc.current] IN
         IF s0.in_comment_block
         THEN LET s1 == BlockCommentLoop(s0) IN
              IF s1.in_comment_block
              THEN [sc |-> scanner_error(s1, "Block comment never closed."),
                    some |-> FALSE]
              ELSE ScanLoop(scan_single_token(scanner_advance(s1).sc))
         ELSE ScanLoop(scan_single_token(s0))

\* Scanner::scan_tokens on a new scanner, and the unwrap of Lox::run, line
\* 69, which panics on None.
ScanSource(text) ==
    LET r == ScanLoop(NewScanner(text)) IN
    IF r.sc.panic \/ ~r.some THEN [r.sc EXCEPT !.panic = TRUE]
    ELSE [r.sc EXCEPT !.tokens = Append(@,
             [token_type |-> "Eof", lexeme |-> "", literal |-> NoneV,
              line |-> r.sc.line])]

\* ---------------------------------------------------------------- scripts
\* Scanner::scan_token and Scanner::text2token on one lexeme of the scripts
\* below: punctuation, keywords, the numbers 1 and 2, and identifiers.
TokenOf(lexeme) ==
    CASE lexeme = "(" -> Token("LeftParen", lexeme)
      [] lexeme = ")" -> Token("RightParen", lexeme)
      [] lexeme = "{" -> Token("LeftBrace", lexeme)
      [] lexeme = "}" -> Token("RightBrace", lexeme)
      [] lexeme = "," -> Token("Comma", lexeme)
      [] lexeme = "." -> Token("Dot", lexeme)
      [] lexeme = "+" -> Token("Plus", lexeme)
      [] lexeme = ";" -> Token("Semicolon", lexeme)
      [] lexeme = "=" -> Token("Equal", lexeme)
      [] lexeme = "<" -> Token("Less", lexeme)
      [] lexeme = "class" -> Token("Class", lexeme)
      [] lexeme = "else" -> Token("Else", lexeme)
      [] lexeme = "for" -> Token("For", lexeme)
      [] lexeme = "fn" -> Token("Fn", lexeme)
      [] lexeme = "if" -> Token("If", lexeme)
      [] lexeme = "print" -> Token("Print", lexeme)
      [] lexeme = "return" -> Token("Return", lexeme)
      [] lexeme = "super" -> Token("Super", lexeme)
      [] lexeme = "this" -> Token("This", lexeme)
      [] lexeme = "var" -> Token("Var", lexeme)
      [] lexeme = "while" -> Token("While", lexeme)
      [] lexeme = "1" -> Lit("Number", lexeme, NumberV(1))
      [] lexeme = "2" -> Lit("Number", lexeme, NumberV(2))
      [] lexeme = "3" -> Lit("Number", lexeme, NumberV(3))
      [] OTHER -> Ident(lexeme)

\* Scanner::scan_tokens: the tokens of the lexemes, then Eof.
scan_tokens(lexemes) ==
    [i \in 1..(Len(lexemes) + 1) |->
        IF i <= Len(lexemes) THEN TokenOf(lexemes[i]) ELSE Token("Eof", "")]

\* The lexemes of the exhaustive parser inputs.
Alphabet == {"a", "1", ";", "(", ")", "{", "}", "=", "if", "print", "var", "fn"}

\* Every token sequence of at most MaxTokens tokens over the alphabet, and Eof.
TokenLists ==
    {scan_tokens(l) : l \in UNION {[1..n -> Alphabet] : n \in 0..MaxTokens}}

\* var a = 1; print a + 1;
PrintSum == <<"var", "a", "=", "1", ";", "print", "a", "+", "1", ";">>

\* var a = 1; if a) print a;
IfNoParen == <<"var", "a", "=", "1", ";", "if", "a", ")", "print", "a", ";">>

\* print 1; while (a { print 2; }
WhileNoParen == <<"print", "1", ";", "while", "(", "a", "{", "print", "2", ";", "}">>

\* fn f( { } print 1;
FnNoParen == <<"fn", "f", "(", "{", "}", "print", "1", ";">>

\* print (1; print 2;
Unclosed == <<"print", "(", "1", ";", "print", "2", ";">>

\* The clauses of the for loops below and their body.
ForInit == <<"var", "a", "=", "1", ";">>
ForCond == <<"a", "<", "3">>
ForIncr == <<"a", "=", "a", "+", "1">>
ForBody == <<"print", "a", ";">>
ForBodyCounting == <<"print", "a", "=", "a", "+", "1", ";">>

\* A for loop over a from 1, with or without each clause; without an
\* initializer a is declared before the loop, without an increment the body
\* counts:
\*    for (var a = 1; a < 3; a = a + 1) print a;
\*    var a = 1; for (; a < 3;) print a = a + 1;
\* and so on.
ForScript(init, cond, incr) ==
    (IF init THEN <<>> ELSE ForInit)
      \o <<"for", "(">> \o (IF init THEN ForInit ELSE <<";">>)
      \o (IF cond THEN ForCond ELSE <<>>) \o <<";">>
      \o (IF incr THEN ForIncr ELSE <<>>) \o <<")">>
      \o (IF incr THEN ForBody ELSE ForBodyCounting)

\* var a; for (a = 1; a < 3; a = a + 1) print a;
ForExpressionInit ==
    <<"var", "a", ";", "for", "(", "a", "=", "1", ";">> \o ForCond \o <<";">>
      \o ForIncr \o <<")">> \o ForBody

ForScripts ==
    {ForScript(init, cond, incr) : init \in BOOLEAN, cond \in BOOLEAN, incr \in BOOLEAN}
      \cup {ForExpressionInit}

\* The scripts run through the whole of Lox::run.
Scripts == {PrintSum, IfNoParen, WhileNoParen, FnNoParen, Unclosed} \cup ForScripts

\* A program derivable from the grammar: its lexemes and the number of its
\* top-level declarations.
Program(lexemes, declarations) == [lexemes |-> lexemes, declarations |-> declarations]

\* for (var a = 1; a < 2; a = a + 1) print a;
ForLoop ==
    Program(<<"for", "(", "var", "a", "=", "1", ";", "a", "<", "2", ";",
              "a", "=", "a", "+", "1", ")", "print", "a", ";">>, 1)

\* fn f(a, b) { if (a) print b; else { print 1; } }  f(1, 2);  while (a) a = 1;
Statements ==
    Program(<<"fn", "f", "(", "a", ",", "b", ")", "{",
              "if", "(", "a", ")", "print", "b", ";", "else", "{", "print", "1", ";", "}",
              "}",
              "f", "(", "1", ",", "2", ")", ";",
              "while", "(", "a", ")", "a", "=", "1", ";">>, 3)

\* fn f() { return 1; }
ReturnStmt == Program(<<"fn", "f", "(", ")", "{", "return", "1", ";", "}">>, 1)

\* class A { m() { print this; } }  var a = 1;
ClassDecl ==
    Program(<<"class", "A", "{", "m", "(", ")", "{", "print", "this", ";", "}", "}",
              "var", "a", "=", "1", ";">>, 2)

\* class B < A { m() { super.m(); } }
SuperCall ==
    Program(<<"class", "B", "<", "A", "{", "m", "(", ")", "{",
              "super", ".", "m", "(", ")", ";", "}", "}">>, 1)

\* print a.b;  a.b = 1;
PropertyAccess ==
    Program(<<"print", "a", ".", "b", ";", "a", ".", "b", "=", "1", ";">>, 2)

Programs ==
    {Program(PrintSum, 2), ForLoop, Statements, ReturnStmt, ClassDecl, SuperCall,
     PropertyAccess}

\* n items with a comma between each two.
Listed(item, n) == [i \in 1..(2 * n - 1) |-> IF i % 2 = 1 THEN item ELSE ","]

\* f(1, 1, .., 1);  with n arguments.
CallWith(n) == <<"f", "(">> \o (IF n = 0 THEN <<>> ELSE Listed("1", n)) \o <<")", ";">>

\* fn f(a, a, .., a) { }  with n parameters.
FnWith(n) ==
    <<"fn", "f", "(">> \o (IF n = 0 THEN <<>> ELSE Listed("a", n)) \o <<")", "{", "}">>

\* The numbers of arguments and parameters tried: few, and around the cap.
Counts == {0, 1, 2, ArgumentCap - 1, ArgumentCap, ArgumentCap + 1}

\* The token sequences given to the parser on its own.
ParserInputs ==
    TokenLists \cup {scan_tokens(l) : l \in Scripts}
               \cup {scan_tokens(p.lexemes) : p \in Programs}
               \cup {scan_tokens(CallWith(n)) : n \in Counts}
               \cup {scan_tokens(FnWith(n)) : n \in Counts}

\* The characters of the exhaustive scanner inputs: letters (with the `o` the
\* scanner treats apart), a digit, the quote, the comment characters, a new
\* line and a character of no token.
SourceChars == {"o", "r", "1", "\"", "/", "*", "\n", "@"}

\* Every source text of at most MaxSource characters.
Texts == UNION {[1..n -> SourceChars] : n \in 0..MaxSource}

\* Longer source texts:  `/*r*/r`,  `r/**/`,  `1.1;`,  `r="r";//r`,
\* `order`.
SampleTexts ==
    {<<"/", "*", "r", "*", "/", "r">>,
     <<"r", "/", "*", "*", "/">>,
     <<"1", ".", "1", ";">>,
     <<"r", "=", "\"", "r", "\"", ";", "/", "/", "r">>,
     <<"o", "r", "d", "e", "r">>}

\* The source texts the malformed-input clauses are checked on:  `@`,  `"r`,
\* `/*r`.
MalformedTexts == {<<"@">>, <<"\"", "r">>, <<"/", "*", "r">>}

ScannerInputs == Texts \cup SampleTexts \cup MalformedTexts

\* ----------------------------------------------------------------- driver
NoSource == Source("", <<>>, 0)

\* Interpreter::new: the global environment, holding the native clock.
Globals == [enclosing |-> 0, values |-> Insert(EmptyMap, "clock", CallableV(Native(0)))]

\* The interpreter state the evaluator threads, as the variables hold it.
St(now) ==
    [envs |-> envs, classes |-> classes, instances |-> instances,
     environment |-> environment, locals |-> locals, trace |-> trace,
     steps |-> steps, had_runtime_error |-> HAD_RUNTIME_ERROR, now |-> now]

\* Lox::new, before run_file reads its script.
Init ==
    /\ pc = "start"
    /\ source = NoSource
    /\ statements = <<>>
    /\ index = 1
    /\ HAD_ERROR = FALSE
    /\ HAD_RUNTIME_ERROR = FALSE
    /\ envs = <<Globals>>
    /\ classes = <<>>
    /\ instances = <<>>
    /\ environment = 1
    /\ locals = EmptyMap
    /\ trace = <<>>
    /\ steps = 0
    /\ exit_code = -1
    /\ tokens = <<>>
    /\ current = 0
    /\ errors = <<>>
    /\ parse_log = <<>>

\* Lox::run, lines 68-78: scan and parse the script, return if an error was
\* reported.
Parse(src) ==
    /\ pc = "start"
    /\ source' = src
    /\ statements' = src.statements
    /\ HAD_ERROR' = (HAD_ERROR \/ src.syntax_errors > 0)
    /\ pc' = IF HAD_ERROR' THEN "returned" ELSE "resolving"
    /\ UNCHANGED <<index, HAD_RUNTIME_ERROR, envs, classes, instances, environment,
                   locals, trace, steps, exit_code, tokens, current, errors,
                   parse_log>>

\* Lox::run, lines 68-72: the scanner's tokens are handed to Parser::new.
Scan(toks) ==
    /\ pc = "start"
    /\ tokens' = toks
    /\ current' = 0
    /\ statements' = <<>>
    /\ pc' = "parsing"
    /\ UNCHANGED <<source, index, HAD_ERROR, HAD_RUNTIME_ERROR, envs, classes,
                   instances, environment, locals, trace, steps, exit_code, errors,
                   parse_log>>

\* The parser, as the variables hold it.
Ps == [tokens |-> tokens, current |-> current, errors |-> errors, log |-> parse_log,
       panic |-> FALSE]

\* One turn of the loop of Parser::parse: push the next declaration.  Every
\* error it reported has set HAD_ERROR; a panic ends the process with exit
\* code 101.
Declaration ==
    /\ pc = "parsing"
    /\ ~is_at_end(Ps)
    /\ LET d == declaration(Ps) IN
       /\ statements' = Append(statements, d.v)
       /\ current' = d.ps.current
       /\ errors' = d.ps.errors
       /\ parse_log' = d.ps.log
       /\ HAD_ERROR' = (HAD_ERROR \/ Len(d.ps.errors) > Len(errors))
       /\ pc' = IF d.ps.panic THEN "exited" ELSE "parsing"
       /\ exit_code' = IF d.ps.panic THEN 101 ELSE exit_code
    /\ UNCHANGED <<source, index, HAD_RUNTIME_ERROR, envs, classes, instances,
                   environment, locals, trace, steps, tokens>>

\* The loop of Parser::parse ends at Eof; Lox::run, lines 74-78, returns if
\* an error was reported.
ParseEnd ==
    /\ pc = "parsing"
    /\ is_at_end(Ps)
    /\ pc' = IF HAD_ERROR THEN "returned" ELSE "resolving"
    /\ UNCHANGED <<source, statements, index, HAD_ERROR, HAD_RUNTIME_ERROR, envs,
                   classes, instances, environment, locals, trace, steps, exit_code,
                   tokens, current, errors, parse_log>>

\* A Lox::run that goes on to the interpreter whatever the resolver reported.
AfterResolveUnchecked(had_error) == "interpreting"

\* Where Lox::run goes after the resolver, given the flag.
AfterResolve(had_error) == IF had_error THEN "returned" ELSE "interpreting"

\* Lox::run, lines 82-98: resolve the statements, return if an error was
\* reported.
Resolve ==
    /\ pc = "resolving"
    /\ LET rs == resolve_stmt_list(NewResolver(locals, HAD_ERROR),
                                   Flatten(statements), 1)
       IN /\ locals' = rs.locals
          /\ HAD_ERROR' = rs.had_error
          /\ errors' = errors \o rs.errors
          /\ pc' = AfterResolve(rs.had_error)
          /\ trace' = IF rs.unbalanced = <<>> /\ rs.scopes = <<>>
                         /\ rs.current_function = "None" /\ rs.current_class = "None"
                      THEN trace
                      ELSE Append(trace, [e |-> "resolver", scopes |-> Len(rs.scopes),
                                          current_function |-> rs.current_function,
                                          current_class |-> rs.current_class,
                                          statements |-> rs.unbalanced])
    /\ index' = 1
    /\ UNCHANGED <<source, statements, HAD_RUNTIME_ERROR, envs, classes, instances,
                   environment, steps, exit_code, tokens, current, parse_log>>

\* One turn of the loop of Interpreter::interpret: execute the next statement
\* and drop its result.  A panic ends the process with exit code 101.
Interpret ==
    /\ pc = "interpreting"
    /\ index <= Len(Flatten(statements))
    /\ \E now \in ClockValues :
         LET r == Execute(St(now), Flatten(statements)[index]) IN
         /\ envs' = r.st.envs
         /\ classes' = r.st.classes
         /\ instances' = r.st.instances
         /\ environment' = r.st.environment
         /\ locals' = r.st.locals
         /\ trace' = r.st.trace
         /\ steps' = r.st.steps
         /\ HAD_RUNTIME_ERROR' = r.st.had_runtime_error
         /\ pc' = CASE r.k = "Panic" -> "exited"
                    [] r.k = "Cut" -> "cut"
                    [] OTHER -> "interpreting"
         /\ exit_code' = IF r.k = "Panic" THEN 101 ELSE exit_code
    /\ index' = index + 1
    /\ UNCHANGED <<source, statements, HAD_ERROR, tokens, current, errors, parse_log>>

\* The loop of Interpreter::interpret ends and Lox::run returns.
InterpretEnd ==
    /\ pc = "interpreting"
    /\ index > Len(Flatten(statements))
    /\ pc' = "returned"
    /\ UNCHANGED <<source, statements, index, HAD_ERROR, HAD_RUNTIME_ERROR, envs,
                   classes, instances, environment, locals, trace, steps, exit_code,
                   tokens, current, errors, parse_log>>

\* Lox::run_file after run: the exit code.
Exit ==
    /\ pc = "returned"
    /\ exit_code' = IF HAD_ERROR THEN 65 ELSE IF HAD_RUNTIME_ERROR THEN 70 ELSE 0
    /\ pc' = "exited"
    /\ UNCHANGED <<source, statements, index, HAD_ERROR, HAD_RUNTIME_ERROR, envs,
                   classes, instances, environment, locals, trace, steps, tokens,
                   current, errors, parse_log>>

Next ==
    \/ \E src \in Sources : Parse(src)
    \/ \E l \in Scripts : Scan(scan_tokens(l))
    \/ Declaration
    \/ ParseEnd
    \/ Resolve
    \/ Interpret
    \/ InterpretEnd
    \/ Exit

Spec == Init /\ [][Next]_vars

\* Scanner and parser on their own: Lox::run up to line 78.
NextParser ==
    \/ \E toks \in ParserInputs : Scan(toks)
    \/ Declaration
    \/ ParseEnd

ParserSpec == Init /\ [][NextParser]_vars

\* Lox::run_prompt, lines 49-50, with Lox::run, lines 68-78: a line is read
\* and run as a program; the trace notes the line.
ReadLine(src) ==
    /\ pc = "start"
    /\ Len(SelectSeq(trace, LAMBDA ev : ev.e = "line")) < MaxLines
    /\ source' = src
    /\ statements' = src.statements
    /\ HAD_ERROR' = (HAD_ERROR \/ src.syntax_errors > 0)
    /\ pc' = IF HAD_ERROR' THEN "returned" ELSE "resolving"
    /\ trace' = Append(trace, [e |-> "line", name |-> src.name])
    /\ UNCHANGED <<index, HAD_RUNTIME_ERROR, envs, classes, instances, environment,
                   locals, steps, exit_code, tokens, current, errors, parse_log>>

\* Lox::run_prompt, lines 58-61: run has returned, the flags are cleared and
\* the loop goes back to the prompt.
Prompt ==
    /\ pc = "returned"
    /\ HAD_ERROR' = FALSE
    /\ HAD_RUNTIME_ERROR' = FALSE
    /\ pc' = "start"
    /\ steps' = 0
    /\ UNCHANGED <<source, statements, index, envs, classes, instances, environment,
                   locals, trace, exit_code, tokens, current, errors, parse_log>>

NextRepl ==
    \/ \E src \in ReplLines : ReadLine(src)
    \/ Resolve
    \/ Interpret
    \/ InterpretEnd
    \/ Prompt

ReplSpec == Init /\ [][NextRepl]_vars

\* Lox::run, lines 68-72, on a source text: the scanner's tokens are handed
\* to Parser::new.  Lox::error sets HAD_ERROR; the scanner's own println
\* lines go to the log; a panic ends the process with exit code 101.
ScanText(text) ==
    /\ pc = "start"
    /\ LET sc == ScanSource(text) IN
       /\ source' = [name |-> Slice(text, 0, Len(text)), text |-> text,
                     statements |-> <<>>, syntax_errors |-> Len(sc.errors)]
       /\ tokens' = sc.tokens
       /\ errors' = sc.errors
       /\ HAD_ERROR' = (HAD_ERROR \/ Len(sc.errors) > 0)
       /\ parse_log' = [i \in 1..Len(sc.printed) |->
                           [e |-> "println", message |-> sc.printed[i]]]
       /\ pc' = IF sc.panic THEN "exited" ELSE "parsing"
       /\ exit_code' = IF sc.panic THEN 101 ELSE exit_code
    /\ current' = 0
    /\ statements' = <<>>
    /\ UNCHANGED <<index, HAD_RUNTIME_ERROR, envs, classes, instances, environment,
                   locals, trace, steps>>

NextScanner ==
    \/ \E text \in ScannerInputs : ScanText(text)
    \/ Declaration
    \/ ParseEnd

ScannerSpec == Init /\ [][NextScanner]_vars

\* Lox::run_file on a source text: the whole of Lox::run, then the exit code.
NextRunFile ==
    \/ \E text \in ScannerInputs : ScanText(text)
    \/ Declaration
    \/ ParseEnd
    \/ Resolve
    \/ Interpret
    \/ InterpretEnd
    \/ Exit

RunFileSpec == Init /\ [][NextRunFile]_vars

\* The environments the operations of Environment are tried on: up to
\* MaxChain nodes, node 1 the root, every other node enclosed by an earlier
\* one, each binding some of the names x and y.
NodeValues ==
    {EmptyMap} \cup {Insert(EmptyMap, "x", NumberV(v)) : v \in {1, 2}}
      \cup {Insert(EmptyMap, "y", NumberV(1))}
      \cup {Insert(Insert(EmptyMap, "x", NumberV(v)), "y", NumberV(1)) : v \in {1, 2}}
Heaps ==
    UNION {{h \in [1..n -> [enclosing : 0..(n - 1), values : NodeValues]] :
               \A i \in 1..n : /\ (h[i].enclosing = 0) <=> (i = 1)
                               /\ h[i].enclosing < i} : n \in 1..MaxChain}
EnvNames == {"x", "y", "z"}
EnvValues == {NumberV(1), NumberV(3)}

\* An interpreter whose environments are one of the heaps, any node current.
InitEnvironment ==
    /\ pc = "environment"
    /\ source = NoSource
    /\ statements = <<>>
    /\ index = 1
    /\ HAD_ERROR = FALSE
    /\ HAD_RUNTIME_ERROR = FALSE
    /\ envs \in Heaps
    /\ classes = <<>>
    /\ instances = <<>>
    /\ environment \in 1..Len(envs)
    /\ locals = EmptyMap
    /\ trace = <<>>
    /\ steps = 0
    /\ exit_code = -1
    /\ tokens = <<>>
    /\ current = 0
    /\ errors = <<>>
    /\ parse_log = <<>>

\* The result of an operation comes back: the heap as it left it, and the
\* operation with its outcome at the end of the trace.
Returned(r, op) ==
    /\ envs' = r.st.envs
    /\ trace' = Append(r.st.trace, [op EXCEPT !.k = r.k, !.v = r.v])
    /\ pc' = "done"
    /\ UNCHANGED <<source, statements, index, HAD_ERROR, HAD_RUNTIME_ERROR, classes,
                   instances, environment, locals, steps, exit_code, tokens, current,
                   errors, parse_log>>

\* Environment::define on the current node.
EnvDefine(name, value) ==
    /\ pc = "environment"
    /\ Returned(Ok(Define(St(0), environment, name, value), NoneV),
                [e |-> "define", name |-> name, value |-> value, k |-> "", v |-> NoneV])

\* Environment::get on the current node.
EnvRead(name) ==
    /\ pc = "environment"
    /\ Returned(EnvGet(St(0), environment, Ident(name)),
                [e |-> "get", name |-> name, value |-> NoneV, k |-> "", v |-> NoneV])

\* Environment::assign on the current node.
EnvWrite(name, value) ==
    /\ pc = "environment"
    /\ Returned(EnvAssign(St(0), environment, Ident(name), value),
                [e |-> "assign", name |-> name, value |-> value, k |-> "", v |-> NoneV])

NextEnvironment ==
    \/ \E name \in EnvNames, value \in EnvValues : EnvDefine(name, value)
    \/ \E name \in EnvNames : EnvRead(name)
    \/ \E name \in EnvNames, value \in EnvValues : EnvWrite(name, value)

EnvironmentSpec == InitEnvironment /\ [][NextEnvironment]_vars

\* ------------------------------------------------------------ observables
\* What the script wrote with print, in order.
Stdout == [i \in 1..Len(SelectSeq(trace, LAMBDA ev : ev.e = "print")) |->
              SelectSeq(trace, LAMBDA ev : ev.e = "print")[i].text]

\* The positions of the trace that hold an event of the given kind.
Events(kind) == {i \in 1..Len(trace) : trace[i].e = kind}

\* ------------------------------------------------------------------ claims
\* C1: if the parser or the resolver reported an error for the source, the
\* interpreter executed none of its statements: nothing was printed, raised or
\* called, and no environment, class or instance was made or changed.
C1_NoExecutionAfterStaticError ==
    HAD_ERROR => /\ trace = <<>>
                 /\ steps = 0
                 /\ envs = <<Globals>>
                 /\ environment = 1
                 /\ classes = <<>>
                 /\ instances = <<>>

\* The run of a script with statements to execute, in which the resolver
\* reported an error, has ended.
C1_Witness ==
    /\ pc = "exited"
    /\ exit_code = 65
    /\ source.syntax_errors = 0
    /\ Len(Flatten(statements)) > 1

\* C2: once a runtime error has been raised, no later statement of the
\* program is executed.
C2_NoStatementAfterRuntimeError ==
    \A i \in Events("raise") : \A j \in Events("stmt") : j < i

\* C3: every runtime error raised is reported and sets the flag, and the run
\* of a script in which one was raised exits with code 70.
C3_RuntimeErrorsReported ==
    \A i \in Events("raise") :
        /\ HAD_RUNTIME_ERROR
        /\ \E j \in Events("report") : j > i /\ trace[j].message = trace[i].message
        /\ pc = "exited" => exit_code = 70

\* C4: no call of a user function whose body ended in a runtime error
\* produces a value.
C4_CallPropagatesRuntimeError ==
    \A i \in Events("leave") : trace[i].body # "RuntimeError"

\* The calls entered and not yet left just before position i of the trace.
OpenCalls(i) ==
    {j \in Events("enter") :
        j < i /\ \A k \in Events("leave") :
                    ~(j < k /\ k < i /\ trace[k].env = trace[j].env)}

\* The innermost of them.
InnermostCall(i) == CHOOSE j \in OpenCalls(i) : \A k \in OpenCalls(i) : k <= j

\* What print wrote, without the lines of a given text.
StdoutWithout(text) == SelectSeq(Stdout, LAMBDA line : line # text)

C6_FreshEnvironmentPerCall ==
    /\ \A i \in Events("enter") :
          /\ trace[i].env > trace[i].before
          /\ trace[i].env <= Len(envs)
          /\ envs[trace[i].env].enclosing = trace[i].closure
          /\ \A j \in Events("enter") : j # i => trace[j].env # trace[i].env
    /\ (pc = "exited" /\ source = Counter) => Stdout = <<"1", "2">>
    /\ (pc = "exited" /\ source = Recursion) => Stdout = <<"0", "1">>

\* The counter script has ended: two calls of count, each in its own
\* environment under the same closure, printed 1 then 2.
C6_Witness ==
    /\ pc = "exited"
    /\ source = Counter
    /\ Stdout = <<"1", "2">>
    /\ \E i, j \in Events("enter") :
          /\ i # j
          /\ trace[i].name = "count" /\ trace[j].name = "count"
          /\ trace[i].closure = trace[j].closure
          /\ trace[i].env # trace[j].env

\* C7: in a call the callee is evaluated before the arguments: what the
\* callee expression prints comes first.
C7_CalleeBeforeArguments ==
    (pc = "exited" /\ source.name = "CallOrder") => Stdout[1] = "callee"

\* C8: a body is entered only with as many arguments as it has parameters; a
\* call of a function, of a class with init or of the native clock with
\* another number of arguments raises the arity error and runs no body.
C8_ArityMismatchIsAnError ==
    /\ \A i \in Events("enter") : trace[i].params = trace[i].arguments
    /\ \A m \in 0..MaxArity, n \in 0..MaxArity :
          (pc = "exited" /\ m # n /\ source \in {ArityFn(m, n), ArityInit(m, n)})
             => /\ \E i \in Events("raise") :
                     trace[i].message =
                        ArityMessage(IF source.name = "ArityFn" THEN "Expected "
                                     ELSE "Initializer expected ", m, n)
                /\ Events("enter") = {}
                /\ StdoutWithout("after") = <<>>
    /\ \A n \in 1..MaxArity :
          (pc = "exited" /\ source = ArityClock(n))
             => \E i \in Events("raise") :
                   trace[i].message = ArityMessage("Expected ", 0, n)

\* The run of the script that calls a class whose init has one parameter
\* with two arguments has ended.
C8_Witness ==
    /\ pc = "exited"
    /\ source = ArityInit(1, 2)
    /\ Events("raise") # {}

C10_InitializerYieldsThis ==
    \A i \in Events("leave") :
        trace[i].is_initializer
           => /\ trace[i].result.t = "Instance"
              /\ "this" \in DOMAIN envs[trace[i].closure].values
              /\ trace[i].result = envs[trace[i].closure].values["this"]

\* An initializer ended by a bare `return;` and its call evaluated to the
\* instance.
C10_Witness ==
    \E i \in Events("leave") :
        /\ trace[i].is_initializer
        /\ trace[i].body = "Return"
        /\ trace[i].value = NoneV
        /\ trace[i].result.t = "Instance"

\* Whether the class declared under the name cname, or a class on its declared
\* superclass chain, declares a method mname (fuel bounds the walk).
RECURSIVE DeclaresMethod(_, _, _)
DeclaresMethod(cname, mname, fuel) ==
    \E j \in Events("class") :
        /\ trace[j].name = cname
        /\ \/ mname \in trace[j].methods
           \/ /\ fuel > 0
              /\ trace[j].superclass.kind = "Variable"
              /\ DeclaresMethod(trace[j].superclass.name.lexeme, mname, fuel - 1)

\* C11: a property read on an instance gives the field of that name when the
\* instance has one, whether or not the class has a method of that name;
\* otherwise the method of that name of the class or of a class on its
\* superclass chain, bound to the receiver; otherwise the runtime error
\* Undefined property.
C11_PropertyRead ==
    \A i \in Events("get") :
        LET ev == trace[i] IN
        IF ev.name \in DOMAIN ev.fields
        THEN ev.k = "Ok" /\ ev.v = ev.fields[ev.name]
        ELSE IF DeclaresMethod(ev.class, ev.name, Cardinality(Events("class")))
             THEN /\ ev.k = "Ok"
                  /\ ev.v.t = "Callable"
                  /\ ev.v.f.name.lexeme = ev.name
                  /\ ev.this = InstanceV(ev.instance)
             ELSE /\ ev.k = "RuntimeError"
                  /\ ev.message = "Undefined property '" \o ev.name \o "'."

\* C12: unary ! raises no error: applied to any value, it gives true when the
\* value is nil or false and false for every other value.
C12_BangIsTotal ==
    /\ \A i \in Events("unary") :
          trace[i].op = "Bang"
             => /\ trace[i].k = "Ok"
                /\ trace[i].v = BooleanV(\/ trace[i].operand.t = "None"
                                         \/ /\ trace[i].operand.t = "Boolean"
                                            /\ ~trace[i].operand.b)
    /\ (pc = "exited" /\ source = Not)
          => Stdout = <<"false", "true", "true", "false", "false", "false",
                        "false", "false">>

\* C13: v == v is true for every value v, callables, classes and instances
\* included, and two callables, classes or instances are equal exactly when
\* they are the same object.  (The model's numbers are integers: none is NaN.)
C13_EqualityIsReflexive ==
    \A i \in Events("binary") :
        trace[i].op = "EqualEqual"
           => /\ trace[i].k = "Ok"
              /\ trace[i].left = trace[i].right => trace[i].v = BooleanV(TRUE)
              /\ trace[i].left.t \in {"Callable", "Class", "Instance"}
                    => (trace[i].v = BooleanV(TRUE) <=> trace[i].left = trace[i].right)

\* C14: `a or b` with a truthy a, and `a and b` with a falsy a, evaluate to
\* the value of a as it is, and nothing happened after a was evaluated: no
\* print, call or error, and no change to an environment, class or instance;
\* otherwise b is evaluated and the result is its value.
C14_ShortCircuit ==
    /\ \A i \in Events("logical") :
          LET ev == trace[i]
              Falsy(v) == v.t = "None" \/ (v.t = "Boolean" /\ ~v.b)
          IN
          ((ev.op = "Or" /\ ~Falsy(ev.left)) \/ (ev.op = "And" /\ Falsy(ev.left)))
             => /\ ev.k = "Ok"
                /\ ev.v = ev.left
                /\ ev.after = ev.after_left
                /\ i = ev.after_left.events + 1
    /\ (pc = "exited" /\ source = Logic)
          => Stdout = <<"0", "eval", "2", "false", "eval", "3", "nil", "true", "1">>

\* The script of logical operators has ended; an `or` short-circuited on the
\* number 0 and an `and` on nil, and two right operands were evaluated.
C14_Witness ==
    /\ pc = "exited"
    /\ source = Logic
    /\ \E i \in Events("logical") :
          trace[i].op = "Or" /\ trace[i].left = NumberV(0) /\ trace[i].v = NumberV(0)
    /\ \E i \in Events("logical") :
          trace[i].op = "And" /\ trace[i].left = NoneV /\ trace[i].v = NoneV
    /\ Cardinality({i \in Events("print") : trace[i].text = "eval"}) = 2

\* The positions of the parser's log that hold an event of the given kind.
Logged(kind) == {i \in 1..Len(parse_log) : parse_log[i].e = kind}

\* The position in the token sequence is a statement boundary as
\* Parser::synchronize sees it: the end, after a semicolon, or before a
\* keyword that starts a statement.
AtBoundary(at) ==
    \/ tokens[at + 1].token_type = "Eof"
    \/ at > 0 /\ tokens[at].token_type = "Semicolon"
    \/ tokens[at + 1].token_type \in StatementStart

\* The errors of the cap on arguments and parameters, which the
\* specification itself calls non-fatal.
CapMessages ==
    {"Can't have more than 255 arguments.", "Can't have more than 255 parameters."}

\* C15: the parser does not panic, every declaration it parses consumes at
\* least one token (so the loop of parse ends, and it ends at Eof), and every
\* syntax error it reports is followed at once by a
\* synchronization to a statement boundary, after which the declaration in
\* progress is given up and parsing resumes there.
C15_ParseRecovers ==
    /\ ~(pc = "exited" /\ exit_code = 101)
    /\ \A i \in Logged("declaration") :
          parse_log[i].to > parse_log[i].from /\ parse_log[i].to < Len(tokens)
    /\ pc \in {"resolving", "returned"} => tokens[current + 1].token_type = "Eof"
    /\ \A i \in Logged("error") :
          parse_log[i].message \notin CapMessages =>
             /\ i + 2 <= Len(parse_log)
             /\ parse_log[i + 1].e = "synchronize"
             /\ AtBoundary(parse_log[i + 1].to)
             /\ parse_log[i + 2].e = "declaration"
             /\ ~parse_log[i + 2].some
             /\ parse_log[i + 2].to = parse_log[i + 1].to

\* C16: when the parser has gone through a program derivable from the
\* grammar, it has reported no error and the statement list holds one
\* statement, and no None, for each top-level declaration.
C16_GrammarIsParsed ==
    \A p \in Programs :
       tokens = scan_tokens(p.lexemes) /\ pc \in {"resolving", "returned"} =>
          /\ errors = <<>>
          /\ Len(statements) = p.declarations
          /\ Flatten(statements) = statements

\* The parser has gone through the script.
ParsedScript(lexemes) ==
    /\ pc \in {"resolving", "returned"}
    /\ Len(tokens) = Len(lexemes) + 1
    /\ tokens = scan_tokens(lexemes)

\* C17: a call with at most 255 arguments is parsed without error; a call
\* with 256 arguments reports exactly one error, at the token of the 256th
\* argument, and is still parsed as one call with all 256 arguments.  The
\* same holds of the parameters of a function declaration.
C17_OneErrorPastTheCap ==
    \A n \in Counts :
       /\ ParsedScript(CallWith(n)) =>
             /\ Len(statements) = 1
             /\ statements[1].kind = "Expression"
             /\ statements[1].expression.kind = "Call"
             /\ Len(statements[1].expression.arguments) = n
             /\ IF n <= 255 THEN parse_log = <<[e |-> "declaration", from |-> 0,
                                               to |-> Len(tokens) - 1, some |-> TRUE]>>
                ELSE /\ n = 256
                     /\ errors = <<"Can't have more than 255 arguments.">>
                     /\ Logged("error") = {1}
                     /\ tokens[parse_log[1].at + 1] = TokenOf("1")
                     /\ parse_log[1].at = 2 + 2 * 255
                     /\ Logged("synchronize") = {}
       /\ ParsedScript(FnWith(n)) =>
             /\ Len(statements) = 1
             /\ statements[1].kind = "Function"
             /\ Len(statements[1].params) = n
             /\ IF n <= 255 THEN parse_log = <<[e |-> "declaration", from |-> 0,
                                               to |-> Len(tokens) - 1, some |-> TRUE]>>
                ELSE /\ n = 256
                     /\ errors = <<"Can't have more than 255 parameters.">>
                     /\ Logged("error") = {1}
                     /\ tokens[parse_log[1].at + 1] = TokenOf("a")
                     /\ parse_log[1].at = 3 + 2 * 255
                     /\ Logged("synchronize") = {}

\* The parser went through a call with 256 arguments and reported an error.
C17_Witness ==
    /\ ParsedScript(CallWith(256))
    /\ HAD_ERROR
    /\ Len(statements[1].expression.arguments) = 256

\* The run resolved the statements of src.
Resolved(src) == source = src /\ pc \notin {"start", "resolving"}

\* C18: a return with a value in the body of a method is reported by the
\* resolver exactly when the method is named `init`, whatever the name of the
\* class.
C18_ReturnValueInInitializer ==
    \A c \in ClassNames, m \in MethodNames :
       Resolved(ReturnInMethod(c, m)) =>
          /\ HAD_ERROR <=> (m = "init")
          /\ errors = IF m = "init"
                      THEN <<"Can't return a value from an initializer">>
                      ELSE <<>>

\* C19: declaring a name a second time (as a variable, a function or a
\* parameter) in the same local scope is reported once by the resolver; a
\* second declaration at global scope, or in a scope nested in the one of the
\* first declaration, is not reported.
C19_RedeclarationInSameScope ==
    \A p \in SameScope \cup OtherScope, k1 \in DeclKinds, k2 \in DeclKinds :
       Resolved(DeclareTwice(p, k1, k2)) =>
          /\ HAD_ERROR <=> (p \in SameScope)
          /\ errors = IF p \in SameScope
                      THEN <<"Already a variable with this name in this scope.">>
                      ELSE <<>>

\* The resolver reported a function declared in a block after a variable of
\* the same name, and the run ended without interpreting anything.
C19_Witness ==
    /\ Resolved(DeclareTwice("Block", "Var", "Function"))
    /\ errors = <<"Already a variable with this name in this scope.">>
    /\ pc = "returned"

\* C20: the resolver reports "Can't return from top-level code." for a return
\* exactly when no function or method body encloses it: once for a return at
\* top level, bare or nested in blocks and control statements, also when it
\* follows a complete function or class declaration, and never for a return
\* in a function, in a function declared in a function, after such an inner
\* function in the outer body, or in a method.
C20_ReturnOutsideFunction ==
    \A p \in Outside \cup Inside, w \in Wrappers, v \in ReturnValues :
       Resolved(ReturnAt(p, w, v)) =>
          /\ HAD_ERROR <=> (p \in Outside)
          /\ errors = IF p \in Outside
                      THEN <<"Can't return from top-level code.">>
                      ELSE <<>>

\* The resolver went through a function declaration whose body returns and
\* then reported the return that follows it at top level.
C20_Witness ==
    /\ Resolved(ReturnAt("AfterFunction", "Block", Num(1)))
    /\ errors = <<"Can't return from top-level code.">>
    /\ pc = "returned"

\* The names of the lines read so far, and what the line being run printed.
LinesRead ==
    LET ls == SelectSeq(trace, LAMBDA ev : ev.e = "line")
    IN [i \in 1..Len(ls) |-> ls[i].name]
LastLineAt == CHOOSE i \in Events("line") : \A j \in Events("line") : j <= i
PrintedByLine ==
    LET rest == SubSeq(trace, LastLineAt + 1, Len(trace))
        ps == SelectSeq(rest, LAMBDA ev : ev.e = "print")
    IN [i \in 1..Len(ps) |-> ps[i].text]
Earlier(name) == \E i \in 1..(Len(LinesRead) - 1) : LinesRead[i] = name

\* C21: in a session every line starts with both flags clear; the side-table
\* entries of an earlier line are still there; a line `print a;` read after a
\* line `var a = 1;` runs to its end and prints 1; and a line `print 7;` runs
\* to its end and prints 7 whatever errors earlier lines reported.
C21_SessionStatePersists ==
    /\ pc = "start" => ~HAD_ERROR /\ ~HAD_RUNTIME_ERROR
    /\ Len(LinesRead) > 0 /\ Earlier("BlockLine") => Variable("a") \in DOMAIN locals
    /\ Len(LinesRead) > 0 /\ source = UseLine /\ Earlier("DefLine") =>
          /\ pc # "exited"
          /\ pc = "returned" => PrintedByLine = <<"1">>
    /\ Len(LinesRead) > 0 /\ source = PlainLine =>
          /\ pc # "exited"
          /\ pc = "returned" => PrintedByLine = <<"7">>

\* The run has scanned a source text.
Scanned == pc # "start"

\* C22: for every source text the scan ends with a token sequence in which
\* the last token, and no other, is Eof; and for a text with an unknown
\* character, an unterminated string or an unterminated block comment an
\* error has gone through the error sink, which sets HAD_ERROR.
C22_ScanEndsInEof ==
    Scanned =>
       /\ Len(tokens) > 0
       /\ \A i \in 1..Len(tokens) : (tokens[i].token_type = "Eof") <=> (i = Len(tokens))
       /\ source.text \in MalformedTexts => HAD_ERROR

\* What the claim compares the lexemes with: the text without its white
\* space and its comments, or Malformed for a text with a character of no
\* token, an unterminated string or an unterminated block comment.  `mode` is
\* "code", "string", "line" (in a // comment) or "block" (in a /* comment).
Malformed == "MALFORMED"
TokenChars ==
    Letters \cup Digits \cup
    {"_", "(", ")", "{", "}", ",", ".", "-", "+", ";", "*", "/", "!", "=", "<", ">"}
RECURSIVE Stripped(_, _, _)
Stripped(text, i, mode) ==
    LET c == text[i]
        two == IF i < Len(text) THEN c \o text[i + 1] ELSE c
        Keep(ch, rest) == IF rest = Malformed THEN Malformed ELSE ch \o rest
    IN IF i > Len(text)
       THEN IF mode \in {"string", "block"} THEN Malformed ELSE ""
       ELSE CASE mode = "string" ->
                    Keep(c, Stripped(text, i + 1, IF c = "\"" THEN "code" ELSE mode))
              [] mode = "line" ->
                    Stripped(text, i + 1, IF c = "\n" THEN "code" ELSE mode)
              [] mode = "block" ->
                    IF two = "*/" THEN Stripped(text, i + 2, "code")
                    ELSE Stripped(text, i + 1, mode)
              [] OTHER ->
                    IF two = "//" THEN Stripped(text, i + 2, "line")
                    ELSE IF two = "/*" THEN Stripped(text, i + 2, "block")
                    ELSE IF c \in {" ", "\r", "\t", "\n"}
                         THEN Stripped(text, i + 1, mode)
                    ELSE IF c = "\"" THEN Keep(c, Stripped(text, i + 1, "string"))
                    ELSE IF c \in TokenChars THEN Keep(c, Stripped(text, i + 1, mode))
                    ELSE Malformed

\* The lexemes of the tokens, one after the other.
RECURSIVE Lexemes(_, _)
Lexemes(toks, i) ==
    IF i > Len(toks) THEN "" ELSE toks[i].lexeme \o Lexemes(toks, i + 1)

\* C23: for every source text without malformed input the scan yields
\* tokens, and their lexemes in order make up the text without its white
\* space and comments.
C23_LexemesReproduceSource ==
    Scanned /\ Stripped(source.text, 1, "code") # Malformed =>
       /\ Len(tokens) > 0
       /\ Lexemes(tokens, 1) = Stripped(source.text, 1, "code")

\* C24: no statement, at top level or inside blocks and calls, has returned
\* from execute (with Ok, a runtime error or a Return signal) with another
\* current environment than it began with; between the statements of the
\* program the current environment is the global one.
C24_EnvironmentRestored ==
    /\ Events("environment") = {}
    /\ pc \in {"interpreting", "returned"} => environment = 1

\* A return left the blocks, the if and the while it was nested in, inside a
\* called function, and the statements after the call ran in the global
\* environment.
C24_Witness ==
    /\ pc = "returned"
    /\ source = NestedReturn("Block", MaxNest, Num(7))
    /\ \E i \in Events("return") : trace[i].value = NumberV(7)
    /\ \E i \in Events("print") : trace[i].text = "after"
    /\ environment = 1

\* C25: no expression the side-table holds a depth d for has been evaluated
\* with a chain of environments of fewer than d + 1 nodes, or with a d-th
\* ancestor that has no binding of the name; the programs with the same
\* variable expression at two depths print the variable's value and end.
C25_DepthsMatchTheChain ==
    /\ Events("unbound") = {}
    /\ source = TwoDepths /\ pc = "returned" => Stdout = <<"1", "1">>
    /\ source = GlobalAfterLocal /\ pc = "returned" => Stdout = <<"1", "0">>
    /\ source \in {TwoDepths, GlobalAfterLocal} => exit_code # 101

\* C26: for a use of a name declared in two enclosing local scopes the
\* resolver records the distance to the innermost of them, 0 for a use in the
\* inner scope itself; the read gives the inner variable's value and the
\* assignment changes the inner variable only.
C26_InnermostDeclarationWins ==
    /\ Resolved(InnermostRead) =>
          /\ locals = Insert(EmptyMap, Variable("a"), 0)
          /\ pc = "returned" => Stdout = <<"2">>
    /\ Resolved(InnermostAssign) =>
          /\ locals = Insert(EmptyMap, Assign("a", Num(3)), 0)
          /\ pc = "returned" =>
                \E outer, inner \in 1..Len(envs) :
                   /\ envs[inner].enclosing = outer /\ envs[outer].enclosing = 1
                   /\ envs[outer].values["a"] = NumberV(1)
                   /\ envs[inner].values["a"] = NumberV(3)

\* The nearest node, from node env towards the root, that binds the name; 0
\* when no node of the chain does.
RECURSIVE Holder(_, _, _)
Holder(heap, env, name) ==
    IF env = 0 THEN 0
    ELSE IF name \in DOMAIN heap[env].values THEN env
    ELSE Holder(heap, heap[env].enclosing, name)

\* Heap `after` is heap `before` but for the binding of the name in node n.
OnlyBindingChanged(before, after, n, name, value) ==
    /\ Len(after) = Len(before)
    /\ \A i \in 1..Len(before) :
          /\ after[i].enclosing = before[i].enclosing
          /\ i # n => after[i].values = before[i].values
    /\ DOMAIN after[n].values = DOMAIN before[n].values \cup {name}
    /\ after[n].values[name] = value
    /\ \A other \in DOMAIN before[n].values \ {name} :
          after[n].values[other] = before[n].values[other]

\* C27: define changes the binding of the name in the current node and
\* nothing else; get gives the value of the nearest node of the chain that
\* binds the name and changes nothing; assign changes that binding in that
\* node and nothing else; when no node of the chain binds the name, get and
\* assign give a runtime error and change nothing.
C27_EnvironmentOperations ==
    [][pc = "environment" =>
         LET op == trace'[Len(trace')]
             holder == Holder(envs, environment, op.name)
         IN CASE op.e = "define" ->
                    OnlyBindingChanged(envs, envs', environment, op.name, op.value)
              [] op.e = "get" ->
                    /\ envs' = envs
                    /\ IF holder = 0 THEN op.k = "RuntimeError"
                       ELSE op.k = "Ok" /\ op.v = envs[holder].values[op.name]
              [] op.e = "assign" ->
                    IF holder = 0 THEN op.k = "RuntimeError" /\ envs' = envs
                    ELSE /\ op.k = "Ok"
                         /\ OnlyBindingChanged(envs, envs', holder, op.name, op.value)
    ]_vars

\* An assign from the innermost node of a chain of MaxChain nodes has
\* written the root's binding of a name that no nearer node binds.
C27_Witness ==
    /\ pc = "done"
    /\ Len(envs) = MaxChain /\ environment = MaxChain
    /\ trace[Len(trace)].e = "assign" /\ trace[Len(trace)].k = "Ok"
    /\ Holder(envs, environment, trace[Len(trace)].name) = 1
    /\ envs[1].values[trace[Len(trace)].name] = NumberV(3)
    /\ envs[MaxChain].enclosing # 1

\* The trees of the clauses and bodies of the for loops of ForScripts.
ForInitTree == Var("a", Num(1))
ForCondTree ==
    [kind |-> "Binary", left |-> Variable("a"), operator |-> TokenOf("<"),
     right |-> Num(3)]
ForIncrTree ==
    Assign("a", [kind |-> "Binary", left |-> Variable("a"), operator |-> TokenOf("+"),
                 right |-> Num(1)])
ForBodyTree(incr) == PrintStmt(IF incr THEN Variable("a") ELSE ForIncrTree)

\* Block{ init, While{ cond, Block{ body, Expression(incr) } } }, an omitted
\* init or incr leaving its place empty and an omitted cond being true.
ForTree(init, cond, incr) ==
    Block((IF init THEN <<ForInitTree>> ELSE <<>>)
          \o <<While(IF cond THEN ForCondTree ELSE Literal(BooleanV(TRUE)),
                     Block(<<ForBodyTree(incr)>>
                           \o (IF incr THEN <<Expression(ForIncrTree)>> ELSE <<>>)))>>)

\* The for loop of ForScripts with these clauses has been parsed.
ForParsed(init, cond, incr) ==
    /\ pc \notin {"start", "parsing"}
    /\ tokens = scan_tokens(ForScript(init, cond, incr))

PrintedTexts ==
    LET ps == SelectSeq(trace, LAMBDA ev : ev.e = "print")
    IN [i \in 1..Len(ps) |-> ps[i].text]

\* What a loop over a from 1 prints: a before the increment when the loop has
\* one, the incremented a when the body counts; up to 3 under the condition.
Counted(cond, incr) ==
    /\ \A i \in 1..Len(PrintedTexts) :
          PrintedTexts[i] = NumToString(IF incr THEN i ELSE i + 1)
    /\ cond /\ pc = "returned" => Len(PrintedTexts) = 2
    /\ Events("report") = {}

\* C28: a for statement is parsed into Block{ init, While{ cond, Block{ body,
\* Expression(incr) } } } whichever clauses are present, with true for an
\* omitted cond; and the loop runs init once, tests cond before every
\* iteration and runs incr after every body: a loop over a from 1 while
\* a < 3 prints 1 and 2.
C28_ForDesugaring ==
    \A init \in BOOLEAN, cond \in BOOLEAN, incr \in BOOLEAN :
       ForParsed(init, cond, incr) =>
          /\ statements[Len(statements)] = ForTree(init, cond, incr)
          /\ Counted(cond, incr)

\* C29: whatever the resolver resolved, with or without static errors, every
\* statement of every statement list left the scope stack at the height it
\* found it and current_function and current_class at the values it found
\* them, and after the whole program the stack is empty and both are None.
C29_ResolverIsBalanced == Events("resolver") = {}

\* Resolved: a class with a superclass in a block, with three static errors;
\* and a class with a superclass in a method of a class, with none, which
\* went on to run and print the inner class.
C29_Witness ==
    \/ /\ Resolved(SubclassInBlock)
       /\ Len(errors) = 3
       /\ HAD_ERROR
    \/ /\ Resolved(SubclassInMethod)
       /\ pc = "returned"
       /\ \E i \in Events("print") : trace[i].text = "B"

\* An error went through Lox::report: a scanner, parser or resolver error.
Reported == errors # <<>> \/ source.syntax_errors > 0

\* C30: the had-error flag and the had-runtime-error flag are never both
\* set; the interpreter runs only with the had-error flag clear; and the
\* process ends with exit code 65 exactly when a scanner, parser or resolver
\* error was reported.
C30_FlagsAreExclusive ==
    /\ ~(HAD_ERROR /\ HAD_RUNTIME_ERROR)
    /\ pc = "interpreting" => ~HAD_ERROR
    /\ HAD_RUNTIME_ERROR => steps > 0
    /\ pc = "exited" => (exit_code = 65 <=> Reported)
====
